---------------------------- MODULE Spec2Model ----------------------------
(***************************************************************************)
(* Generation & Extraction Pipeline of media-map (texture.watch).          *)
(*                                                                         *)
(* The module models                                                       *)
(*   - src/src/lib/supabase.ts: generateSlug, parseComparisons,            *)
(*     extractCalibrationSentence, getCachedCard, saveCard;                *)
(*   - src/src/app/api/generate/route.ts (the current handler, lines       *)
(*     204-508): getFirstChunk and POST;                                   *)
(*   - src/src/lib/tmdb.ts: the Metadata Lookup calls POST makes.          *)
(*                                                                         *)
(* Text is a sequence of characters; a character is a one-character        *)
(* string.  The JavaScript regular expressions of supabase.ts are kept as  *)
(* data (sequences of nodes) and matched by a backtracking matcher that    *)
(* follows the priority order of the JavaScript engine (greedy: longest    *)
(* first, lazy: shortest first, alternatives left to right).               *)
(***************************************************************************)
EXTENDS Naturals, Sequences, FiniteSets, TLC

(***************************************************************************)
(* Characters                                                              *)
(***************************************************************************)

\* U+2192, the comparison arrow glyph of the cards
RightArrow == "U+2192"

NL == "\n"

\* what \s matches (of the characters that occur in the model)
WhiteSpace == {" ", "\n", "\t", "\r"}

\* what . does not match
LineTerminators == {"\n", "\r"}

UpperCase == {"A", "B", "F", "I", "T", "U"}

LowerCase == {"a", "b", "e", "f", "h", "i", "k", "l", "m", "n", "o", "p", "q",
              "s", "t", "u", "w", "x", "y"}

Digits == {"0", "1", "2", "3", "4", "5", "6", "7", "8", "9"}

\* String.prototype.toLowerCase on one character
LowerOf(c) ==
    CASE c = "A" -> "a"
      [] c = "B" -> "b"
      [] c = "F" -> "f"
      [] c = "I" -> "i"
      [] c = "T" -> "t"
      [] c = "U" -> "u"
      [] OTHER -> c

\* both cases of a letter: a literal letter under the /i flag
BothCases(c) == {c} \cup {d \in UpperCase \cup LowerCase : LowerOf(d) = LowerOf(c)}

(***************************************************************************)
(* String helpers (JavaScript String.prototype)                            *)
(***************************************************************************)

\* null / undefined of an object, of a text and of a list of objects
NULL == [isNull |-> TRUE]

NullText == <<"null">>

NullList == <<[isNull |-> TRUE]>>

RECURSIVE Flatten(_)
\* the concatenation of a sequence of texts
Flatten(ss) == IF ss = <<>> THEN <<>> ELSE Head(ss) \o Flatten(Tail(ss))

\* s.substring(i - 1, j - 1): the characters i .. j-1
Sub(s, i, j) == IF j <= i THEN <<>> ELSE SubSeq(s, i, j - 1)

RECURSIVE TrimStart(_)
TrimStart(s) ==
    IF s # <<>> /\ Head(s) \in WhiteSpace THEN TrimStart(Tail(s)) ELSE s

RECURSIVE TrimEnd(_)
TrimEnd(s) ==
    IF s # <<>> /\ s[Len(s)] \in WhiteSpace
    THEN TrimEnd(SubSeq(s, 1, Len(s) - 1))
    ELSE s

\* s.trim()
Trim(s) == TrimEnd(TrimStart(s))

\* s.startsWith(pre)
StartsWith(s, pre) == Len(s) >= Len(pre) /\ SubSeq(s, 1, Len(pre)) = pre

\* s.includes(sub)
Includes(s, sub) ==
    \E i \in 1..(Len(s) + 1) :
        i + Len(sub) - 1 <= Len(s) /\ SubSeq(s, i, i + Len(sub) - 1) = sub

\* s.replace(/c/g, ''): s without the characters of set cs
Without(s, cs) == SelectSeq(s, LAMBDA c : c \notin cs)

RECURSIVE StripTrailing(_, _)
\* s.replace(/c+$/, '') for the characters of set cs
StripTrailing(s, cs) ==
    IF s # <<>> /\ s[Len(s)] \in cs
    THEN StripTrailing(SubSeq(s, 1, Len(s) - 1), cs)
    ELSE s

RECURSIVE SplitFrom(_, _, _)
\* the pieces of s from position i on, cut at every character sep
SplitFrom(s, sep, i) ==
    LET ends == {j \in i..Len(s) : s[j] = sep}
    IN  IF ends = {}
        THEN <<Sub(s, i, Len(s) + 1)>>
        ELSE LET j == CHOOSE k \in ends : \A m \in ends : k <= m
             IN  <<Sub(s, i, j)>> \o SplitFrom(s, sep, j + 1)

\* s.split(sep) for a one-character separator
Split(s, sep) == SplitFrom(s, sep, 1)

(***************************************************************************)
(* Regular expressions as data, and the backtracking matcher               *)
(***************************************************************************)

\* one character of set cs
Ch(cs) == [t |-> "ch", neg |-> FALSE, set |-> cs]

\* one character not in set cs
NotCh(cs) == [t |-> "ch", neg |-> TRUE, set |-> cs]

\* x{min,}  (greedy, or lazy: x{min,}?) for a one-character class x
Rep(x, min, lazy) ==
    [t |-> "rep", neg |-> x.neg, set |-> x.set, min |-> min, max |-> 0, lazy |-> lazy]

\* x? (greedy) for a one-character class x
Opt(x) ==
    [t |-> "rep", neg |-> x.neg, set |-> x.set, min |-> 0, max |-> 1, lazy |-> FALSE]

\* (?:items)? (greedy)
OptGroup(items) == [t |-> "opt", items |-> items]

\* (?:a|b)
Alt(a, b) == [t |-> "alt", a |-> a, b |-> b]

\* the opening and the closing parenthesis of capture group g
Open(g) == [t |-> "open", g |-> g]

Close(g) == [t |-> "close", g |-> g]

\* ^ and $: multiline tells whether the regular expression has the m flag
Bol(multiline) == [t |-> "bol", m |-> multiline]

Eol(multiline) == [t |-> "eol", m |-> multiline]

\* a literal word; ci: under the /i flag
Word(cs, ci) == <<[t |-> "word", cs |-> cs, ci |-> ci]>>

\* \s and .
ReSpace == Ch(WhiteSpace)

ReAny == NotCh(LineTerminators)

NoMatch == [ok |-> FALSE, end |-> 0, caps |-> <<>>]

NoCapture == <<0, 0>>

ClassHas(node, c) == IF node.neg THEN c \notin node.set ELSE c \in node.set

\* whether the literal word cs stands in s at position p
WordAt(s, p, cs, ci) ==
    /\ p + Len(cs) - 1 <= Len(s)
    /\ \A i \in 1..Len(cs) :
          IF ci THEN LowerOf(s[p + i - 1]) = LowerOf(cs[i]) ELSE s[p + i - 1] = cs[i]

\* how many characters of s from position p on are in the class of node
\* (at most limit; limit 0: no limit)
RunLength(s, node, p, limit) ==
    LET stops == {j \in p..(Len(s) + 1) : j = Len(s) + 1 \/ ~ClassHas(node, s[j])}
        stop  == CHOOSE j \in stops : \A k \in stops : j <= k
    IN  IF limit # 0 /\ stop - p > limit THEN limit ELSE stop - p

RECURSIVE Match(_, _, _, _), FirstOf(_, _, _, _, _, _)
\* The first match, in the engine's priority order, of the node sequence
\* items against s from position p on; caps holds the captures so far.
Match(s, items, p, caps) ==
    IF items = <<>> THEN [ok |-> TRUE, end |-> p, caps |-> caps]
    ELSE
    LET n == Head(items)
        rest == Tail(items)
    IN  CASE n.t = "ch" ->
               IF p <= Len(s) /\ ClassHas(n, s[p])
               THEN Match(s, rest, p + 1, caps)
               ELSE NoMatch
          [] n.t = "word" ->
               IF WordAt(s, p, n.cs, n.ci)
               THEN Match(s, rest, p + Len(n.cs), caps)
               ELSE NoMatch
          [] n.t = "rep" ->
               LET run == RunLength(s, n, p, n.max)
                   cnt == IF run < n.min THEN 0 ELSE run - n.min + 1
                   ks  == [i \in 1..cnt |->
                              IF n.lazy THEN p + n.min + i - 1 ELSE p + run - i + 1]
               IN  IF cnt = 0 THEN NoMatch ELSE FirstOf(s, rest, caps, ks, 1, cnt)
          [] n.t = "opt" ->
               LET r == Match(s, n.items \o rest, p, caps)
               IN  IF r.ok THEN r ELSE Match(s, rest, p, caps)
          [] n.t = "alt" ->
               LET r == Match(s, n.a \o rest, p, caps)
               IN  IF r.ok THEN r ELSE Match(s, n.b \o rest, p, caps)
          [] n.t = "open" ->
               Match(s, rest, p, [caps EXCEPT ![n.g] = <<p, p>>])
          [] n.t = "close" ->
               Match(s, rest, p, [caps EXCEPT ![n.g] = <<caps[n.g][1], p>>])
          [] n.t = "bol" ->
               IF p = 1 \/ (n.m /\ p > 1 /\ s[p - 1] \in LineTerminators)
               THEN Match(s, rest, p, caps)
               ELSE NoMatch
          [] n.t = "eol" ->
               IF p = Len(s) + 1 \/ (n.m /\ p <= Len(s) /\ s[p] \in LineTerminators)
               THEN Match(s, rest, p, caps)
               ELSE NoMatch

\* The first success among the attempts to match items at the positions
\* ps[lo], ..., ps[hi], tried in this order (the range is halved only to
\* keep the evaluation shallow; the order of the attempts is that of ps).
FirstOf(s, items, caps, ps, lo, hi) ==
    IF lo = hi
    THEN Match(s, items, ps[lo], caps)
    ELSE LET mid == (lo + hi) \div 2
             r   == FirstOf(s, items, caps, ps, lo, mid)
         IN  IF r.ok THEN r ELSE FirstOf(s, items, caps, ps, mid + 1, hi)

\* the text of capture group g of match r (NullText: the group took no part)
Group(s, r, g) ==
    IF r.caps[g] = NoCapture THEN NullText ELSE Sub(s, r.caps[g][1], r.caps[g][2])

\* string.match(re) for a regular expression without the g flag and anchored
\* by ^: the match at position 1, with ngroups capture groups
MatchAnchored(s, re, ngroups) == Match(s, re, 1, [g \in 1..ngroups |-> NoCapture])

\* re.exec(s) for a regular expression with the g flag: the first match that
\* starts at lastIndex or later (positions count from 1)
ExecFrom(s, re, ngroups, lastIndex) ==
    IF lastIndex > Len(s) + 1 THEN NoMatch
    ELSE FirstOf(s, re, [g \in 1..ngroups |-> NoCapture],
                 [i \in 1..(Len(s) + 2 - lastIndex) |-> lastIndex + i - 1],
                 1, Len(s) + 2 - lastIndex)

(***************************************************************************)
(* src/src/lib/supabase.ts: the pure functions                             *)
(***************************************************************************)

Letters == UpperCase \cup LowerCase

RECURSIVE SquashRuns(_, _, _)
\* s.replace(/x+/g, by): every maximal run of characters of cs becomes one by
SquashRuns(s, cs, by) ==
    IF s = <<>> THEN <<>>
    ELSE IF Head(s) \in cs
         THEN LET n == RunLength(s, Ch(cs), 1, 0)
              IN  <<by>> \o SquashRuns(Sub(s, n + 1, Len(s) + 1), cs, by)
         ELSE <<Head(s)>> \o SquashRuns(Tail(s), cs, by)

\* title.toLowerCase()
ToLowerCase(s) == [i \in 1..Len(s) |-> LowerOf(s[i])]

\* a year (or any string) is truthy when it is neither null nor empty
Truthy(s) == s # NullText /\ s # <<>>

\* generateSlug(title, year)
generateSlug(title, year) ==
    LET lowered  == ToLowerCase(title)
        stripped == SelectSeq(lowered,
                        LAMBDA c : c \in LowerCase \cup Digits \cup WhiteSpace \cup {"-"})
        hyphened == SquashRuns(stripped, WhiteSpace, "-")
        collapsed == SquashRuns(hyphened, {"-"}, "-")
        noLead   == IF collapsed # <<>> /\ Head(collapsed) = "-"
                    THEN Tail(collapsed) ELSE collapsed
        baseSlug == IF noLead # <<>> /\ noLead[Len(noLead)] = "-"
                    THEN SubSeq(noLead, 1, Len(noLead) - 1) ELSE noLead
    IN  IF Truthy(year) THEN baseSlug \o <<"-">> \o year ELSE baseSlug

\* /^[-*]\s+\*?([^*→\->]+?)\*?\s*(?:→|->)\s*(.+)$/gm
ComparisonPattern ==
    << Bol(TRUE), Ch({"-", "*"}), Rep(ReSpace, 1, FALSE), Opt(Ch({"*"})),
       Open(1), Rep(NotCh({"*", RightArrow, "-", ">"}), 1, TRUE), Close(1),
       Opt(Ch({"*"})), Rep(ReSpace, 0, FALSE),
       Alt(<<Ch({RightArrow})>>, <<Ch({"-"}), Ch({">"})>>),
       Rep(ReSpace, 0, FALSE),
       Open(2), Rep(ReAny, 1, FALSE), Close(2), Eol(TRUE) >>

RECURSIVE ParseComparisonsFrom(_, _)
\* the while loop of parseComparisons, from pattern.lastIndex on
ParseComparisonsFrom(cardContent, lastIndex) ==
    LET match == ExecFrom(cardContent, ComparisonPattern, 2, lastIndex)
    IN  IF ~match.ok THEN <<>>
        ELSE LET title  == Trim(Group(cardContent, match, 1))
                 phrase == Trim(Group(cardContent, match, 2))
                 found  == IF title # <<>> /\ phrase # <<>>
                           THEN <<[title |-> title, phrase |-> phrase]>>
                           ELSE <<>>
             IN  found \o ParseComparisonsFrom(cardContent, match.end)

\* parseComparisons(cardContent)
parseComparisons(cardContent) == ParseComparisonsFrom(cardContent, 1)

\* ^\*?If\s+\*?([^*,]+?)\*?\s+felt\s+(like\s+)?(.+?),\s+   (common to both patterns)
CalibrationHead ==
    << Bol(FALSE), Opt(Ch({"*"})) >> \o Word(<<"I", "f">>, TRUE)
    \o << Rep(ReSpace, 1, FALSE), Opt(Ch({"*"})),
          Open(1), Rep(NotCh({"*", ","}), 1, TRUE), Close(1),
          Opt(Ch({"*"})), Rep(ReSpace, 1, FALSE) >>
    \o Word(<<"f", "e", "l", "t">>, TRUE)
    \o << Rep(ReSpace, 1, FALSE),
          OptGroup(<<Open(2)>> \o Word(<<"l", "i", "k", "e">>, TRUE)
                   \o <<Rep(ReSpace, 1, FALSE), Close(2)>>),
          Open(3), Rep(ReAny, 1, TRUE), Close(3),
          Ch({","}), Rep(ReSpace, 1, FALSE) >>

\* ((?:may\s+)?feel[s]?\s+(?:like\s+)?.+?)\.?\*?$   as capture group g
CalibrationTail(g) ==
    << Open(g),
       OptGroup(Word(<<"m", "a", "y">>, TRUE) \o <<Rep(ReSpace, 1, FALSE)>>) >>
    \o Word(<<"f", "e", "e", "l">>, TRUE)
    \o << Opt(Ch(BothCases("s"))), Rep(ReSpace, 1, FALSE),
          OptGroup(Word(<<"l", "i", "k", "e">>, TRUE) \o <<Rep(ReSpace, 1, FALSE)>>),
          Rep(ReAny, 1, TRUE), Close(g),
          Opt(Ch({"."})), Opt(Ch({"*"})), Eol(FALSE) >>

\* Pattern with "this": If X felt (like) Y, this feels Z
ThisPattern ==
    CalibrationHead \o Word(<<"t", "h", "i", "s">>, TRUE)
    \o <<Rep(ReSpace, 1, FALSE)>> \o CalibrationTail(4)

\* Pattern with title name: If X felt (like) Y, Title feels Z
\* ([A-Z][A-Za-z0-9\s':]+?)\s+ under the /i flag
NamedPattern ==
    CalibrationHead
    \o << Open(4), Ch(Letters),
          Rep(Ch(Letters \cup Digits \cup WhiteSpace \cup {"'", ":"}), 1, TRUE),
          Close(4), Rep(ReSpace, 1, FALSE) >>
    \o CalibrationTail(5)

\* the sentence rebuilt from a match: title, likeWord, feltPart, feelsPart
Canonical(title, likeWord, feltPart, feelsPart) ==
    LET cleanTitle == Trim(Without(title, {"*"}))
        cleanFelt  == Trim(Without(feltPart, {"*"}))
        cleanFeels == Trim(StripTrailing(Without(feelsPart, {"*"}), {"."}))
        feltPrefix == IF Truthy(likeWord)
                      THEN <<"l", "i", "k", "e", " ">> ELSE <<>>
    IN  <<"I", "f", " ">> \o cleanTitle \o <<" ", "f", "e", "l", "t", " ">>
        \o feltPrefix \o cleanFelt \o <<",", " ", "t", "h", "i", "s", " ">>
        \o cleanFeels \o <<".">>

\* variant: only the bullet lines are skipped
SkippedLineBulletsOnly(trimmedLine) ==
    \/ StartsWith(trimmedLine, <<"-">>)
    \/ (StartsWith(trimmedLine, <<"*">>) /\ ~StartsWith(trimmedLine, <<"*", "I", "f">>))

\* the tests of the for loop that skip a line (continue)
SkippedLine(trimmedLine) ==
    \/ StartsWith(trimmedLine, <<"-">>)
    \/ (StartsWith(trimmedLine, <<"*">>) /\ ~StartsWith(trimmedLine, <<"*", "I", "f">>))
    \/ Includes(trimmedLine, <<RightArrow>>)
    \/ Includes(trimmedLine, <<"-", ">">>)

\* the loop over the two patterns for one trimmed line: the sentence of the
\* first pattern that matches, or NullText (no return)
PatternsOfLine(trimmedLine) ==
    LET m1 == MatchAnchored(trimmedLine, ThisPattern, 4)
        m2 == MatchAnchored(trimmedLine, NamedPattern, 5)
    IN  IF m1.ok
        THEN Canonical(Group(trimmedLine, m1, 1), Group(trimmedLine, m1, 2),
                       Group(trimmedLine, m1, 3), Group(trimmedLine, m1, 4))
        ELSE IF m2.ok
        THEN Canonical(Group(trimmedLine, m2, 1), Group(trimmedLine, m2, 2),
                       Group(trimmedLine, m2, 3), Group(trimmedLine, m2, 5))
        ELSE NullText

\* variant: a line that has the word felt is taken as the sentence
CalibrationOfLineWithFelt(line) ==
    IF Includes(line, <<"f", "e", "l", "t">>) THEN Trim(line) ELSE NullText

\* the body of the for loop for one line: the sentence, or NullText (no return)
CalibrationOfLine(line) ==
    IF SkippedLine(Trim(line)) THEN NullText ELSE PatternsOfLine(Trim(line))

RECURSIVE LastCalibration(_)
\* variant: the last line that gives a sentence is the one returned
LastCalibration(lines) ==
    IF lines = <<>> THEN NullText
    ELSE LET c == LastCalibration(Tail(lines))
         IN  IF c # NullText THEN c ELSE CalibrationOfLine(Head(lines))

RECURSIVE FirstCalibration(_)
FirstCalibration(lines) ==
    IF lines = <<>> THEN NullText
    ELSE LET c == CalibrationOfLine(Head(lines))
         IN  IF c # NullText THEN c ELSE FirstCalibration(Tail(lines))

\* extractCalibrationSentence(cardContent)
extractCalibrationSentence(cardContent) == FirstCalibration(Split(cardContent, NL))

(***************************************************************************)
(* Bounds of the model                                                     *)
(***************************************************************************)

\* generation requests of a run
NumRequests == 2

\* text fragments one backend stream yields at most
MaxChunks == 2

Requests == 1..NumRequests

(***************************************************************************)
(* The catalog (TMDB) and src/src/lib/tmdb.ts                              *)
(***************************************************************************)

\* catalog entries, as the details endpoint returns them
Details ==
    { [id |-> 1, title |-> <<"A">>, release_date |-> <<"1", "9", "9", "5", "-", "0", "7">>,
       media_type |-> "movie"],
      [id |-> 2, title |-> <<"B", "!">>, release_date |-> NullText,
       media_type |-> "tv"] }

\* releaseDate ? releaseDate.split("-")[0] : "Unknown"
YearOf(releaseDate) ==
    IF Truthy(releaseDate) THEN Split(releaseDate, "-")[1]
    ELSE <<"U", "n", "k", "n", "o", "w", "n">>

\* the MediaInfo that getMediaById and searchMedia build from the details
MediaInfoOf(details) ==
    [id |-> details.id, title |-> details.title,
     year |-> YearOf(details.release_date), mediaType |-> details.media_type]

\* getMediaById(id, mediaType): the possible results when tmdbFetch does not
\* throw; the media type returned is the one asked for
getMediaById(id, mediaType) ==
    {[MediaInfoOf(d) EXCEPT !.mediaType = mediaType] :
        d \in {e \in Details : e.id = id}}

\* searchMedia(query): the possible results; NULL: no movie or tv result
searchMedia == {MediaInfoOf(d) : d \in Details} \cup {NULL}

\* resolveComparisonTitle(title) for one outcome of the catalog search:
\* a found entry, "none" (no usable match) or "error" (the lookup failed)
resolveComparisonTitle(outcome) ==
    IF outcome.kind = "found"
    THEN [title |-> outcome.details.title, tmdb_id |-> outcome.details.id,
          media_type |-> outcome.details.media_type,
          year |-> YearOf(outcome.details.release_date)]
    ELSE NULL

\* the catalog search matches a query with the titles it is a prefix of
Matches(query, details) ==
    /\ Len(query) <= Len(details.title)
    /\ StartsWith(details.title, query)

\* what the catalog search for a comparison title may come to
SearchOutcomes(query) ==
    {[kind |-> "found", details |-> d] : d \in {e \in Details : Matches(query, e)}}
    \cup {[kind |-> "none"], [kind |-> "error"]}

(***************************************************************************)
(* The generation backends                                                 *)
(***************************************************************************)

GEMINI_MODEL == "gemini-2.5-flash-lite-preview-06-17"

CLAUDE_MODEL == "claude-sonnet-4-20250514"

Backends == {"gemini", "claude"}

\* the text fragments a backend may yield
LineA == <<"-", " ", "A", " ", RightArrow, " ", "p", NL>>

LineB == <<"*", " ", "*", "B", "*", " ", "-", ">", " ", "q", NL>>

LineIf == <<"I", "f", " ", "A", " ", "f", "e", "l", "t", " ", "x", ",", " ",
            "t", "h", "i", "s", " ", "f", "e", "e", "l", "s", " ", "y", ".", NL>>

\* the fragments tried for each backend
Chunks(b) == IF b = "gemini" THEN {LineA, LineIf} ELSE {LineB, LineIf}

\* the texts one backend can have streamed when its stream ends
StreamableTexts ==
    {Flatten(cs) : cs \in UNION {[1..n -> Chunks(b)] :
                                    b \in Backends, n \in 0..MaxChunks}}

\* lines of a document
MaxLines == 3

\* - A U+2192 If A felt x, AB feels y.
BulletArrowLine ==
    <<"-", " ", "A", " ", RightArrow, " ", "I", "f", " ", "A", " ", "f",
      "e", "l", "t", " ", "x", ",", " ", "A", "B", " ", "f", "e", "e", "l",
      "s", " ", "y", ".">>

\* * If A felt x, this feels y.
StarBulletLine ==
    <<"*", " ", "I", "f", " ", "A", " ", "f", "e", "l", "t", " ", "x", ",",
      " ", "t", "h", "i", "s", " ", "f", "e", "e", "l", "s", " ", "y", ".">>

\* If A felt x -> y, this feels p.
ArrowLine ==
    <<"I", "f", " ", "A", " ", "f", "e", "l", "t", " ", "x", " ", "-", ">",
      " ", "y", ",", " ", "t", "h", "i", "s", " ", "f", "e", "e", "l", "s",
      " ", "p", ".">>

\* If B felt like x, AB feels like y.
NamedLine ==
    <<"I", "f", " ", "B", " ", "f", "e", "l", "t", " ", "l", "i", "k", "e",
      " ", "x", ",", " ", "A", "B", " ", "f", "e", "e", "l", "s", " ", "l",
      "i", "k", "e", " ", "y", ".">>

\* If A felt x, this may feel y.
ThisLine ==
    <<"I", "f", " ", "A", " ", "f", "e", "l", "t", " ", "x", ",", " ", "t",
      "h", "i", "s", " ", "m", "a", "y", " ", "f", "e", "e", "l", " ", "y",
      ".">>

\* *If *A* felt x, this feels y.*
EmphasisLine ==
    <<"*", "I", "f", " ", "*", "A", "*", " ", "f", "e", "l", "t", " ", "x",
      ",", " ", "t", "h", "i", "s", " ", "f", "e", "e", "l", "s", " ", "y",
      ".", "*">>

\* A felt x.
PlainLine ==
    <<"A", " ", "f", "e", "l", "t", " ", "x", ".">>

\* If A, B felt x, this feels y.
CommaTitleLine ==
    <<"I", "f", " ", "A", ",", " ", "B", " ", "f", "e", "l", "t", " ", "x",
      ",", " ", "t", "h", "i", "s", " ", "f", "e", "e", "l", "s", " ", "y",
      ".">>

DocLines ==
    {BulletArrowLine, StarBulletLine, ArrowLine,
     NamedLine, ThisLine, EmphasisLine,
     PlainLine, CommaTitleLine}

RECURSIVE JoinLines(_)
\* the text whose lines are these
JoinLines(lines) ==
    IF Len(lines) = 1 THEN Head(lines)
    ELSE Head(lines) \o <<NL>> \o JoinLines(Tail(lines))

\* the generated texts of one to MaxLines lines
Documents == {JoinLines(ls) : ls \in UNION {[1..n -> DocLines] : n \in 1..MaxLines}}

\* lines of a comparison list
MaxListLines == 3

\* - A U+2192 p
ListA == <<"-", " ", "A", " ", RightArrow, " ", "p">>

\* * *B* -> q
ListB == <<"*", " ", "*", "B", "*", " ", "-", ">", " ", "q">>

\* - A-B U+2192 p
ListHyphen == <<"-", " ", "A", "-", "B", " ", RightArrow, " ", "p">>

\* - B: 2's U+2192 q
ListRich ==
    <<"-", " ", "B", ":", " ", "2", "'", "s", " ", RightArrow, " ", "q">>

\* - A
ListNoArrow == <<"-", " ", "A">>

\* * U+2192 q
ListNoTitle == <<"*", " ", RightArrow, " ", "q">>

\* B U+2192 q
NoBulletLine == <<"B", " ", RightArrow, " ", "q">>

ListLines ==
    {ListA, ListB, ListHyphen, ListRich, ListNoArrow, ListNoTitle, NoBulletLine}

\* the generated comparison lists of one to MaxListLines lines
ListDocuments ==
    {JoinLines(ls) : ls \in UNION {[1..n -> ListLines] : n \in 1..MaxListLines}}

\* parseComparisons and extractCalibrationSentence are pure: their values
\* on the streamable texts and on the documents are computed once and looked
\* up afterwards
ParsedComparisons ==
    [text \in StreamableTexts \cup ListDocuments |-> parseComparisons(text)]

CalibrationSentences ==
    [text \in StreamableTexts \cup Documents \cup ListDocuments |->
        extractCalibrationSentence(text)]

ParseComparisonsOf(text) ==
    IF text \in DOMAIN ParsedComparisons THEN ParsedComparisons[text]
    ELSE parseComparisons(text)

CalibrationSentenceOf(text) ==
    IF text \in DOMAIN CalibrationSentences THEN CalibrationSentences[text]
    ELSE extractCalibrationSentence(text)

\* forceProvider of the request body
ForceValues == {"undefined", "claude", "gemini"}

(***************************************************************************)
(* State                                                                   *)
(***************************************************************************)

VARIABLES
    cards,      \* the rows of table cards
    nextId,     \* the id the table gives to the next inserted row
    upserts,    \* history: the upserts that succeeded, in order
    rq,         \* per request: the local variables of POST and its streams
    log,        \* history: the statements that wrote to table cards, in order
                \* (in ResolveSpec also the lookups of the comparisons, as
                \* they settle)
    pending_posts,  \* the rows of table pending_posts
    link,       \* the locals of the calls of GET /api/approve/[token]
    patch,      \* the locals of the calls of PATCH /api/admin/pending/[id]
    jobs,       \* the locals of the invocations of GET /api/cron/post-to-x
    tweets      \* history: the posts made on X, in order

\* the state of the approval and posting handlers
posting == <<pending_posts, link, patch, jobs, tweets>>

vars == <<cards, nextId, upserts, rq, log, posting>>

NoResponse == [status |-> 0, xCache |-> "", xProvider |-> ""]

IdleBackend == [state |-> "idle", yielded |-> 0, late |-> 0]

\* the locals of one POST call before the request arrives
IdleRequest ==
    [pc            |-> "idle",
     given         |-> FALSE,      \* history: the body has a title or a tmdbId
     forceProvider |-> "undefined",
     lookup        |-> "none",     \* history: none, found, empty, threw
     mediaInfo     |-> NULL,
     userMessage   |-> NULL,
     cached        |-> NULL,       \* what getCachedCard returned
     candidate     |-> "none",     \* the backend being tried
     provider      |-> "",
     iterator      |-> "none",     \* the backend whose iterator POST holds
     firstChunk    |-> <<>>,
     pulls         |-> 0,          \* history: the calls of next() on the held iterator
     fullContent   |-> <<>>,
     accumulated   |-> <<>>,       \* history: the source of each accumulated fragment
     backend       |-> [b \in Backends |-> IdleBackend],
     response      |-> NoResponse,
     stream        |-> "none",     \* none, open, closed, errored, canceled
     out           |-> <<>>,       \* what the controller has enqueued
     parsed        |-> NullList,   \* parseComparisons(fullContent), once called
     resolution    |-> <<>>,       \* per parsed comparison: the lookup's state
     upsert        |-> "none"]     \* none, ok, error

\* invocations of the posting job that may overlap
NumJobs == 2

Jobs == 1..NumJobs

\* the post the approval mail is about, as the job that sent the mail left
\* it; token_expired: the time of token_expires_at has passed
MailedPost ==
    [id |-> 1, approval_token |-> "t", status |-> "pending",
     approved_via |-> "none", selected_card_id |-> 1, token_expired |-> FALSE]

\* the locals of a handler between two calls; calls counts the calls made,
\* status is that of the last response
IdleCall == [pc |-> "idle", calls |-> 0, status |-> 0]

\* the locals of an invocation of the posting job before it starts
IdleJob == [pc |-> "idle", selectedCard |-> 0, status |-> 0]

Init ==
    /\ cards = {}
    /\ nextId = 1
    /\ upserts = <<>>
    /\ rq = [r \in Requests |-> IdleRequest]
    /\ log = <<>>
    /\ pending_posts = {MailedPost}
    /\ link = IdleCall
    /\ patch = IdleCall
    /\ jobs = [j \in Jobs |-> IdleJob]
    /\ tweets = <<>>

(***************************************************************************)
(* Table cards: src/src/lib/supabase.ts                                    *)
(***************************************************************************)

\* getCachedCard(tmdbId): select * where tmdb_id = tmdbId, single();
\* NULL when the query errs (failed) or does not match exactly one row
getCachedCard(rows, tmdbId, failed) ==
    LET data == {c \in rows : c.tmdb_id = tmdbId}
    IN  IF failed \/ Cardinality(data) # 1 THEN NULL
        ELSE CHOOSE c \in data : TRUE

\* .single(): the row when the query matches exactly one, else no data
Single(data) == IF Cardinality(data) = 1 THEN CHOOSE c \in data : TRUE ELSE NULL

\* the id of a row as text (a uuid in the table; no slug of the model is
\* one)
IdText(id) == <<"#", <<"1", "2", "3", "4", "5", "6", "7", "8", "9">>[id]>>

\* getCardBySlugOrId(slugOrId): first by slug, then by id
getCardBySlugOrId(rows, slugOrId) ==
    LET bySlug == Single({c \in rows : c.slug = slugOrId})
        byId   == Single({c \in rows : IdText(c.id) = slugOrId})
    IN  IF bySlug # NULL THEN bySlug
        ELSE IF byId # NULL THEN byId
        ELSE NULL

\* the column values saveCard hands to upsert
SaveValues(card) ==
    [tmdb_id              |-> card.tmdbId,
     title                |-> card.title,
     slug                 |-> generateSlug(card.title, card.year),
     media_type           |-> card.mediaType,
     year                 |-> card.year,
     card_content         |-> card.cardContent,
     calibration_sentence |-> CalibrationSentenceOf(card.cardContent),
     comparisons          |-> card.comparisons,
     provider             |-> card.provider]

\* the row an insert creates: the table fills in id and the posting stamps
InsertedRow(id, v) ==
    [id |-> id, tmdb_id |-> v.tmdb_id, title |-> v.title, slug |-> v.slug,
     media_type |-> v.media_type, year |-> v.year,
     card_content |-> v.card_content,
     calibration_sentence |-> v.calibration_sentence,
     comparisons |-> v.comparisons, provider |-> v.provider,
     last_posted_at |-> 0, last_posted_bluesky |-> 0]

\* variant: the conflicting row is replaced by a fresh one with its id
UpdatedRowAsInserted(row, v) == InsertedRow(row.id, v)

\* variant: the update leaves the sentence of the row as it is
UpdatedRowKeepsSentence(row, v) ==
    [InsertedRow(row.id, v) EXCEPT
        !.calibration_sentence = row.calibration_sentence,
        !.last_posted_at = row.last_posted_at,
        !.last_posted_bluesky = row.last_posted_bluesky]

\* variant: the update overwrites the text and its sentence only
UpdatedRowTextOnly(row, v) ==
    [row EXCEPT !.card_content = v.card_content,
                !.calibration_sentence = v.calibration_sentence]

\* the row an update leaves: the columns of the upsert are overwritten
UpdatedRow(row, v) ==
    [row EXCEPT !.title = v.title, !.slug = v.slug,
                !.media_type = v.media_type, !.year = v.year,
                !.card_content = v.card_content,
                !.calibration_sentence = v.calibration_sentence,
                !.comparisons = v.comparisons, !.provider = v.provider]

\* variant: a plain insert
Insert(rows, id, v) == rows \cup {InsertedRow(id, v)}

\* upsert(v, {onConflict: 'tmdb_id'}): the table afterwards
Upsert(rows, id, v) ==
    LET old == {c \in rows : c.tmdb_id = v.tmdb_id}
    IN  IF old = {} THEN rows \cup {InsertedRow(id, v)}
        ELSE (rows \ old) \cup {UpdatedRow(c, v) : c \in old}

\* an entry of the log: the statement op wrote to the row(s) with this id;
\* card is the argument of a saveCard, calibration_sentence that of a PATCH
Written(op, id, card, calibration_sentence) ==
    [op |-> op, id |-> id, card |-> card,
     calibration_sentence |-> calibration_sentence]

(***************************************************************************)
(* POST /api/generate: src/src/app/api/generate/route.ts                   *)
(***************************************************************************)

Set(r, rec) == rq' = [rq EXCEPT ![r] = rec]

\* the request bodies tried: every combination for the first request of a
\* run, one body that names catalog entry 1 and pins Claude for the others
Titles == {NullText, <<"A">>}

TmdbIds == {0, 1, 2}

MediaTypes == {"undefined", "movie"}

Bodies(r) ==
    IF r = 1
    THEN [title : Titles, tmdbId : TmdbIds, mediaType : MediaTypes,
          forceProvider : ForceValues]
    ELSE {[title |-> NullText, tmdbId |-> 1, mediaType |-> "movie",
           forceProvider |-> "claude"]}

\* what the lookup of lines 285-297 may leave in mediaInfo;
\* NULL also stands for a lookup that threw and was caught
LookupResults(title, tmdbId, mediaType) ==
    IF tmdbId # 0 /\ mediaType # "undefined"
    THEN getMediaById(tmdbId, mediaType) \cup {NULL}
    ELSE IF Truthy(title) THEN searchMedia
    ELSE {NULL}

\* how the lookup of lines 285-297 may have come to leave info in mediaInfo:
\* getMediaById returns an entry or throws, searchMedia may also return null
LookupKinds(title, tmdbId, mediaType, info) ==
    IF info # NULL THEN {"found"}
    ELSE IF tmdbId # 0 /\ mediaType # "undefined" THEN {"threw"}
    ELSE IF Truthy(title) THEN {"empty", "threw"}
    ELSE {"none"}

\* variant: the catalog context is announced whatever the lookup gave
UserMessageWithContext(mediaInfo, title) == [context |-> TRUE, title |-> title]

\* the userMessage of lines 334-338: with the catalog context and the
\* catalog title, or with the title of the request alone (NullText: the
\* template renders undefined)
UserMessage(mediaInfo, title) ==
    IF mediaInfo # NULL
    THEN [context |-> TRUE, title |-> mediaInfo.title]
    ELSE [context |-> FALSE, title |-> title]

\* variant: no body is rejected
InvalidNever(body) == FALSE

\* if (!title && !tmdbId), line 276
Invalid(body) == ~Truthy(body.title) /\ body.tmdbId = 0

\* let provider = forceProvider === "claude" ? CLAUDE_MODEL : GEMINI_MODEL
FirstCandidate(force) == IF force = "claude" THEN "claude" ELSE "gemini"

ModelOf(b) == IF b = "claude" THEN CLAUDE_MODEL ELSE GEMINI_MODEL

\* line 341 on: the first candidate is about to be opened
StartGeneration(rec) ==
    [rec EXCEPT !.pc = "open",
                !.candidate = FirstCandidate(rec.forceProvider),
                !.provider = ModelOf(FirstCandidate(rec.forceProvider))]

\* the request arrives: validation and the catalog lookup. userMessage
\* depends on title and mediaInfo alone, which are final after the lookup:
\* it is kept from here on and read when the generation starts.
ReceiveBody(r, body) ==
    IF Invalid(body)
    THEN Set(r, [rq[r] EXCEPT !.pc = "done",
                     !.given = Truthy(body.title) \/ body.tmdbId # 0,
                     !.forceProvider = body.forceProvider,
                     !.response = [NoResponse EXCEPT !.status = 400]])
    ELSE \E info \in LookupResults(body.title, body.tmdbId, body.mediaType) :
         \E kind \in LookupKinds(body.title, body.tmdbId, body.mediaType, info) :
            LET rec == [rq[r] EXCEPT
                           !.given = Truthy(body.title) \/ body.tmdbId # 0,
                           !.forceProvider = body.forceProvider,
                           !.lookup = kind,
                           !.mediaInfo = info,
                           !.userMessage = UserMessage(info, body.title)]
            IN  Set(r, IF info # NULL THEN [rec EXCEPT !.pc = "cache"]
                       ELSE StartGeneration(rec))

\* the requests arrive one after the other
Receive(r) ==
    /\ rq[r].pc = "idle"
    /\ \A q \in Requests : q < r => rq[q].pc # "idle"
    /\ \E body \in Bodies(r) : ReceiveBody(r, body)
    /\ UNCHANGED <<cards, nextId, upserts, log, posting>>

\* variant: the metadata block of a hit without sentence and comparisons
HitMetadataWithoutExtras(cached) ==
    [kind |-> "metadata", id |-> cached.id, slug |-> cached.slug,
     title |-> cached.title, year |-> cached.year,
     mediaType |-> cached.media_type,
     calibrationSentence |-> NullText,
     comparisons |-> <<>>]

\* the metadata block of a cache hit
HitMetadata(cached) ==
    [kind |-> "metadata", id |-> cached.id, slug |-> cached.slug,
     title |-> cached.title, year |-> cached.year,
     mediaType |-> cached.media_type,
     calibrationSentence |-> cached.calibration_sentence,
     comparisons |-> IF cached.comparisons = NullList THEN <<>>
                     ELSE cached.comparisons]

TextBlock(text, src) == [kind |-> "text", text |-> text, src |-> src]

\* the cache check of lines 299-332
CacheCheck(r) ==
    /\ rq[r].pc = "cache"
    /\ \E failed \in BOOLEAN :
          LET cached == getCachedCard(cards, rq[r].mediaInfo.id, failed)
          IN  IF cached # NULL
              THEN Set(r, [rq[r] EXCEPT
                       !.pc = "done", !.cached = cached,
                       !.response = [status |-> 200, xCache |-> "HIT",
                                     xProvider |-> ""],
                       !.out = <<HitMetadata(cached),
                                 TextBlock(cached.card_content, "cache")>>])
              ELSE Set(r, StartGeneration(rq[r]))
    /\ UNCHANGED <<cards, nextId, upserts, log, posting>>

\* the state of backend b of a request
SetBackend(rec, b, state) == [rec EXCEPT !.backend[b].state = state]

\* variant: the fallback leaves provider as it was set at line 341
CandidateFailedKeepsProvider(rec) ==
    IF rec.forceProvider # "claude" /\ rec.candidate = "gemini"
    THEN [rec EXCEPT !.pc = "open", !.candidate = "claude"]
    ELSE [rec EXCEPT !.pc = "done",
                     !.response = [NoResponse EXCEPT !.status = 503]]

\* the catch blocks of lines 350-356 and 364-380: after the candidate
\* failed, the next one is tried or the request is answered 503
CandidateFailed(rec) ==
    IF rec.forceProvider # "claude" /\ rec.candidate = "gemini"
    THEN [rec EXCEPT !.pc = "open", !.candidate = "claude",
                     !.provider = CLAUDE_MODEL]
    ELSE [rec EXCEPT !.pc = "done",
                     !.response = [NoResponse EXCEPT !.status = 503]]

\* await generateWithGemini / generateWithClaude returns the stream
OpenCandidate(r) ==
    /\ rq[r].pc = "open"
    /\ Set(r, [SetBackend(rq[r], rq[r].candidate, "open") EXCEPT !.pc = "first"])
    /\ UNCHANGED <<cards, nextId, upserts, log, posting>>

\* the open call throws
OpenThrows(r) ==
    /\ rq[r].pc = "open"
    /\ Set(r, CandidateFailed(SetBackend(rq[r], rq[r].candidate, "openThrew")))
    /\ UNCHANGED <<cards, nextId, upserts, log, posting>>

\* await model.generateContentStream never settles: no timer guards it
OpenHangs(r) ==
    /\ rq[r].pc = "open"
    /\ rq[r].candidate = "gemini"
    /\ Set(r, [SetBackend(rq[r], "gemini", "hung") EXCEPT !.pc = "hung"])
    /\ UNCHANGED <<cards, nextId, upserts, log, posting>>

\* the metadata block of a generated card, lines 390-402
MissMetadata(info) ==
    [kind |-> "metadata", title |-> info.title, year |-> info.year,
     mediaType |-> info.mediaType]

\* variant: let fullContent = ""
InitialContentEmpty(firstChunk) == <<>>

\* let fullContent = firstChunk
InitialContent(firstChunk) == firstChunk

\* lines 383-407 and 493-500: the candidate is committed, the response
\* is returned and start() runs up to its first await, the race of line 415:
\* next() has been called once by getFirstChunk and once by the loop
Commit(rec, firstChunk) ==
    [rec EXCEPT
        !.pc = "streaming",
        !.iterator = rec.candidate,
        !.firstChunk = firstChunk,
        !.pulls = 2,
        !.fullContent = InitialContent(firstChunk),
        !.accumulated = IF InitialContent(firstChunk) # <<>>
                        THEN <<rec.candidate>> ELSE <<>>,
        !.response = [status |-> 200, xCache |-> "MISS",
                      xProvider |-> rec.provider],
        !.stream = "open",
        !.out = (IF rec.mediaInfo # NULL THEN <<MissMetadata(rec.mediaInfo)>>
                 ELSE <<>>)
                \o (IF Truthy(firstChunk)
                    THEN <<TextBlock(firstChunk, rec.candidate)>> ELSE <<>>)]

\* getFirstChunk: iterator.next() wins the race with a fragment
FirstChunkIs(r, chunk) ==
    /\ rq[r].pc = "first"
    /\ Set(r, Commit([SetBackend(rq[r], rq[r].candidate, "streaming")
                         EXCEPT !.backend[rq[r].candidate].yielded = 1],
                     chunk))

FirstChunkArrives(r) ==
    /\ rq[r].pc = "first"
    /\ \E chunk \in Chunks(rq[r].candidate) : FirstChunkIs(r, chunk)
    /\ UNCHANGED <<cards, nextId, upserts, log, posting>>

\* getFirstChunk: the stream ends before any fragment (result.done)
FirstChunkDone(r) ==
    /\ rq[r].pc = "first"
    /\ Set(r, Commit(SetBackend(rq[r], rq[r].candidate, "ended"), <<>>))
    /\ UNCHANGED <<cards, nextId, upserts, log, posting>>

\* getFirstChunk: the timer wins the race; the pending next() is abandoned
FirstChunkTimeout(r) ==
    /\ rq[r].pc = "first"
    /\ Set(r, CandidateFailed(SetBackend(rq[r], rq[r].candidate, "abandoned")))
    /\ UNCHANGED <<cards, nextId, upserts, log, posting>>

\* getFirstChunk: iterator.next() rejects
FirstChunkThrows(r) ==
    /\ rq[r].pc = "first"
    /\ Set(r, CandidateFailed(SetBackend(rq[r], rq[r].candidate, "threw")))
    /\ UNCHANGED <<cards, nextId, upserts, log, posting>>

\* an abandoned backend settles its pending next() with a fragment
\* that nobody awaits any more
LateChunk(r) ==
    /\ \E b \in Backends :
          /\ rq[r].backend[b].state = "abandoned"
          /\ rq[r].backend[b].late = 0
          /\ Set(r, [rq[r] EXCEPT !.backend[b].late = 1])
    /\ UNCHANGED <<cards, nextId, upserts, log, posting>>

\* variant: the loop keeps reading the iterator of the first candidate
StreamSourceFirstCandidate(rec) == FirstCandidate(rec.forceProvider)

\* the backend whose iterator the loop of lines 410-420 reads
StreamSource(rec) == rec.iterator

\* a backend with a next() outstanding that may still yield a fragment
Producing == {"streaming", "abandoned"}

\* lines 431-445: one resolution promise is created per parsed comparison
IssueResolutions(rec) ==
    [rec EXCEPT !.pc = "resolving",
                !.resolution = [i \in 1..Len(rec.parsed) |-> [settled |-> FALSE]]]

\* controller.close(), line 485. On a stream its caller has canceled
\* close() throws; the catch of lines 486-489 then calls controller.error,
\* which leaves a stream that is no longer readable as it is.
ControllerClose(rec) ==
    [rec EXCEPT !.pc = "done",
                !.stream = IF rec.stream = "canceled" THEN "canceled" ELSE "closed"]

\* variant: the save block is entered whatever the text is
AfterStreamAnyText(rec) ==
    IF rec.mediaInfo # NULL
    THEN IssueResolutions(
             [rec EXCEPT !.parsed = ParseComparisonsOf(rec.fullContent)])
    ELSE ControllerClose(rec)

\* what the body is left with after the stream ended, line 423 on
AfterStream(rec) ==
    IF rec.mediaInfo # NULL /\ Truthy(rec.fullContent)
    THEN IssueResolutions(
             [rec EXCEPT !.parsed = ParseComparisonsOf(rec.fullContent)])
    ELSE ControllerClose(rec)

\* variant: a stall or a throw ends the loop like the end of the stream
StreamErrorAsEnd(rec) == AfterStream(rec)

\* the catch of lines 486-489: controller.error(streamError)
StreamError(rec) ==
    [rec EXCEPT !.pc = "done",
                !.stream = IF rec.stream = "canceled" THEN "canceled" ELSE "errored"]

\* variant: the loop asks for two fragments at once
ForwardPrefetching(rec, chunk, b) ==
    IF rec.stream = "canceled" THEN StreamError(rec)
    ELSE [rec EXCEPT !.out = Append(@, TextBlock(chunk, b)),
                     !.pulls = @ + 2]

\* line 419 and the next turn of the loop: the fragment is enqueued and
\* next() is called again; on a canceled stream enqueue throws instead
Forward(rec, chunk, b) ==
    IF rec.stream = "canceled" THEN StreamError(rec)
    ELSE [rec EXCEPT !.out = Append(@, TextBlock(chunk, b)),
                     !.pulls = @ + 1]

\* the loop reads one more fragment: accumulate and forward it
StreamChunk(r) ==
    /\ rq[r].pc = "streaming"
    /\ LET b == StreamSource(rq[r])
       IN  /\ rq[r].backend[b].state \in Producing
           /\ rq[r].backend[b].yielded < MaxChunks
           /\ \E chunk \in Chunks(b) :
                 Set(r, Forward([rq[r] EXCEPT
                                    !.backend[b].yielded = @ + 1,
                                    !.fullContent = @ \o chunk,
                                    !.accumulated = Append(@, b)],
                                chunk, b))
    /\ UNCHANGED <<cards, nextId, upserts, log, posting>>

\* the loop reads result.done: break, parse the comparisons and issue
\* all the resolutions
StreamDone(r) ==
    /\ rq[r].pc = "streaming"
    /\ LET b == StreamSource(rq[r])
       IN  /\ rq[r].backend[b].state \in Producing \cup {"ended"}
           /\ Set(r, AfterStream(SetBackend(rq[r], b, "ended")))
    /\ UNCHANGED <<cards, nextId, upserts, log, posting>>

\* the timer wins the race of the loop
StreamStalls(r) ==
    /\ rq[r].pc = "streaming"
    /\ LET b == StreamSource(rq[r])
       IN  /\ rq[r].backend[b].state \in Producing
           /\ Set(r, StreamError(SetBackend(rq[r], b, "stalled")))
    /\ UNCHANGED <<cards, nextId, upserts, log, posting>>

\* iterator.next() rejects in the loop
StreamThrows(r) ==
    /\ rq[r].pc = "streaming"
    /\ LET b == StreamSource(rq[r])
       IN  /\ rq[r].backend[b].state \in Producing
           /\ Set(r, StreamError(SetBackend(rq[r], b, "threw")))
    /\ UNCHANGED <<cards, nextId, upserts, log, posting>>

\* lines 431-445: the promise of comparison i settles; a lookup that found
\* nothing or failed gives null
Resolved(pc, outcome) ==
    LET resolved == resolveComparisonTitle(outcome)
    IN  IF resolved # NULL
        THEN [title          |-> resolved.title,
              original_title |-> pc.title,
              tmdb_id        |-> resolved.tmdb_id,
              media_type     |-> resolved.media_type,
              year           |-> resolved.year,
              slug           |-> generateSlug(resolved.title, resolved.year),
              phrase         |-> pc.phrase]
        ELSE NULL

\* the promise of comparison i settles with this outcome of the search
Settle(r, i, outcome) ==
    /\ rq[r].pc = "resolving"
    /\ ~rq[r].resolution[i].settled
    /\ Set(r, [rq[r] EXCEPT !.resolution[i] =
                  [settled |-> TRUE, outcome |-> outcome.kind,
                   result |-> Resolved(rq[r].parsed[i], outcome)]])

ResolveSettles(r) ==
    /\ rq[r].pc = "resolving"
    /\ \E i \in 1..Len(rq[r].resolution) :
       \E outcome \in SearchOutcomes(rq[r].parsed[i].title) :
          Settle(r, i, outcome)
    /\ UNCHANGED <<cards, nextId, upserts, log, posting>>

\* variant: no filter, the null results stay in the list
KeepUnresolved(results) == [i \in 1..Len(results) |-> results[i].result]

\* variant: one null result empties the list
AllOrNothing(results) ==
    IF \E i \in 1..Len(results) : results[i].result = NULL THEN <<>>
    ELSE [i \in 1..Len(results) |-> results[i].result]

RECURSIVE MergeByTitle(_)
\* variant: of the results with one title only the first is kept
MergeByTitle(results) ==
    IF results = <<>> THEN <<>>
    ELSE LET last == results[Len(results)].result
             rest == SubSeq(results, 1, Len(results) - 1)
         IN  MergeByTitle(rest)
             \o (IF last # NULL
                    /\ \A i \in 1..Len(rest) :
                          rest[i].result = NULL \/ rest[i].result.title # last.title
                 THEN <<last>> ELSE <<>>)

\* results.filter(c => c !== null)
RECURSIVE FilterResolved(_)
FilterResolved(results) ==
    IF results = <<>> THEN <<>>
    ELSE (IF Head(results).result # NULL THEN <<Head(results).result>> ELSE <<>>)
         \o FilterResolved(Tail(results))

\* the argument of saveCard, lines 452-462
CardToSave(rec) ==
    LET resolvedComparisons == FilterResolved(rec.resolution)
    IN  [tmdbId      |-> rec.mediaInfo.id,
         title       |-> rec.mediaInfo.title,
         mediaType   |-> rec.mediaInfo.mediaType,
         year        |-> rec.mediaInfo.year,
         cardContent |-> rec.fullContent,
         comparisons |-> IF Len(resolvedComparisons) > 0
                         THEN resolvedComparisons ELSE NullList,
         provider    |-> rec.provider]

\* the card info block, lines 465-472
CardInfo(row, v) ==
    [kind |-> "cardinfo", id |-> row.id, slug |-> row.slug,
     calibrationSentence |-> v.calibration_sentence,
     comparisons |-> v.comparisons]

\* variant: the card info block is put in front of the queue
SavedCardInfoFirst(rec, cardInfo) ==
    ControllerClose([rec EXCEPT !.upsert = "ok", !.out = <<cardInfo>> \o @])

\* lines 465-485 after saveCard returned: the card info block is enqueued
\* and the stream is closed; on a canceled stream enqueue throws, the catch
\* of lines 480-482 logs it and close() is reached all the same
Saved(rec, cardInfo) ==
    ControllerClose([rec EXCEPT
        !.upsert = "ok",
        !.out = IF rec.stream = "canceled" THEN @ ELSE Append(@, cardInfo)])

\* variant: a failed upsert errors the stream of the caller
SaveFailedErrorsStream(rec) == StreamError([rec EXCEPT !.upsert = "error"])

\* saveCard threw: the catch of lines 480-482 logs it, line 485 closes
SaveFailed(rec) == ControllerClose([rec EXCEPT !.upsert = "error"])

\* Promise.all settled: saveCard upserts, the card info block is sent
\* and the stream is closed
SaveCard(r) ==
    /\ rq[r].pc = "resolving"
    /\ \A i \in 1..Len(rq[r].resolution) : rq[r].resolution[i].settled
    /\ \E card \in {CardToSave(rq[r])} :
       \E v \in {SaveValues(card)} :
       \E rows \in {Upsert(cards, nextId, v)} :
       \E row \in {c \in rows : c.tmdb_id = v.tmdb_id} :
          /\ cards' = rows
          /\ nextId' = IF Cardinality(rows) > Cardinality(cards)
                       THEN nextId + 1 ELSE nextId
          /\ upserts' = Append(upserts, [request |-> r, row |-> row])
          /\ log' = Append(log, Written("saveCard", row.id, card, NullText))
          /\ Set(r, Saved(rq[r], CardInfo(row, v)))
    /\ UNCHANGED posting

\* the upsert errs: saveCard throws, the catch of lines 480-482 logs it
\* and the stream is closed
SaveFails(r) ==
    /\ rq[r].pc = "resolving"
    /\ \A i \in 1..Len(rq[r].resolution) : rq[r].resolution[i].settled
    /\ Set(r, SaveFailed(rq[r]))
    /\ UNCHANGED <<cards, nextId, upserts, log, posting>>

\* the caller disconnects: its reader cancels the response stream. The
\* underlying source of line 386 has no cancel callback and POST reads no
\* abort signal, so start() runs on.
Cancel(r) ==
    /\ rq[r].stream = "open"
    /\ Set(r, [rq[r] EXCEPT !.stream = "canceled"])
    /\ UNCHANGED <<cards, nextId, upserts, log, posting>>

Next ==
    \E r \in Requests :
        \/ Receive(r)
        \/ CacheCheck(r)
        \/ OpenCandidate(r)
        \/ OpenThrows(r)
        \/ OpenHangs(r)
        \/ FirstChunkArrives(r)
        \/ FirstChunkDone(r)
        \/ FirstChunkTimeout(r)
        \/ FirstChunkThrows(r)
        \/ LateChunk(r)
        \/ StreamChunk(r)
        \/ StreamDone(r)
        \/ StreamStalls(r)
        \/ StreamThrows(r)
        \/ ResolveSettles(r)
        \/ SaveCard(r)
        \/ SaveFails(r)

Spec == Init /\ [][Next]_vars

\* the steps of request r
Step(r) ==
    \/ Receive(r)
    \/ CacheCheck(r)
    \/ OpenCandidate(r)
    \/ OpenThrows(r)
    \/ OpenHangs(r)
    \/ FirstChunkArrives(r)
    \/ FirstChunkDone(r)
    \/ FirstChunkTimeout(r)
    \/ FirstChunkThrows(r)
    \/ LateChunk(r)
    \/ StreamChunk(r)
    \/ StreamDone(r)
    \/ StreamStalls(r)
    \/ StreamThrows(r)
    \/ ResolveSettles(r)
    \/ SaveCard(r)
    \/ SaveFails(r)

\* the event loop runs a request on whenever a promise it awaits can
\* settle or the timer of a race can fire
FairSpec == Init /\ [][Next]_vars /\ \A r \in Requests : WF_vars(Step(r))

\* the same requests with callers that may disconnect
CancelNext == Next \/ \E r \in Requests : Cancel(r)

CancelSpec == Init /\ [][CancelNext]_vars

(***************************************************************************)
(* Table cards and its writers: saveCard (src/src/lib/supabase.ts), the    *)
(* sentence override PATCH /api/admin/regenerate and the posting jobs      *)
(* GET /api/cron/post-to-x and /api/cron/post-to-bluesky                   *)
(***************************************************************************)

\* statements written to the table in a run
MaxStoreOps == 3

\* the texts, comparisons and providers of the cards saved
StoreTexts == {LineA, LineIf, LineA \o LineIf}

StoreComparisons ==
    {NullList,
     <<[title |-> <<"A">>, original_title |-> <<"A">>, tmdb_id |-> 1,
        media_type |-> "movie", year |-> <<"1", "9", "9", "5">>,
        slug |-> <<"a", "-", "1", "9", "9", "5">>, phrase |-> <<"p">>]>>}

\* the arguments saveCard is called with: the identity of a catalog entry,
\* a generated text, its resolved comparisons and the provider
StoreCards ==
    {[tmdbId |-> info.id, title |-> info.title, mediaType |-> info.mediaType,
      year |-> info.year, cardContent |-> text, comparisons |-> comparisons,
      provider |-> provider] :
        info \in {MediaInfoOf(d) : d \in Details}, text \in StoreTexts,
        comparisons \in StoreComparisons,
        provider \in {GEMINI_MODEL, CLAUDE_MODEL}}

\* saveCard(card) when the upsert succeeds (when it errs nothing is written)
saveCard(card) ==
    /\ Len(log) < MaxStoreOps
    /\ \E v \in {SaveValues(card)} :
       \E rows \in {Upsert(cards, nextId, v)} :
       \E row \in {c \in rows : c.tmdb_id = v.tmdb_id} :
          /\ cards' = rows
          /\ nextId' = IF Cardinality(rows) > Cardinality(cards)
                       THEN nextId + 1 ELSE nextId
          /\ log' = Append(log, Written("saveCard", row.id, card, NullText))
    /\ UNCHANGED <<upserts, rq, posting>>

\* card_id and calibration_sentence of the body of PATCH; 0: no card_id
CardIds == 0..2

PatchSentences == {<<>>, <<"*", "x", "*">>}

\* variant: the override stores the sentence without its emphasis markers
UpdateSentenceCleaned(rows, card_id, calibration_sentence) ==
    {IF c.id = card_id
     THEN [c EXCEPT !.calibration_sentence = Without(calibration_sentence, {"*"})]
     ELSE c : c \in rows}

\* update({ calibration_sentence }).eq("id", card_id): the table afterwards
UpdateSentence(rows, card_id, calibration_sentence) ==
    {IF c.id = card_id
     THEN [c EXCEPT !.calibration_sentence = calibration_sentence]
     ELSE c : c \in rows}

\* PATCH /api/admin/regenerate. A caller that is no admin is answered 401
\* and a body without card_id or without calibration_sentence 400: both
\* leave the table alone. An update that errs writes nothing either.
PATCH ==
    /\ Len(log) < MaxStoreOps
    /\ \E admin \in BOOLEAN, card_id \in CardIds,
          calibration_sentence \in PatchSentences :
          IF ~admin \/ card_id = 0 \/ ~Truthy(calibration_sentence)
          THEN UNCHANGED <<cards, log, posting>>
          ELSE /\ cards' = UpdateSentence(cards, card_id, calibration_sentence)
               /\ log' = Append(log, Written("PATCH", card_id, NULL,
                                               calibration_sentence))
    /\ UNCHANGED <<nextId, upserts, rq, posting>>

\* the cards a posting job may pick: they have a sentence and a slug and
\* were not posted on the channel (the thirty days of the filter do not
\* pass within a run)
Eligible(rows, channel) ==
    {c \in rows : /\ c.calibration_sentence # NullText
                  /\ c.slug # NullText
                  /\ (IF channel = "x" THEN c.last_posted_at
                      ELSE c.last_posted_bluesky) = 0}

\* new Date().toISOString(): the time of a write, counted in writes
Now == Len(log) + 1

\* GET /api/cron/post-to-x: the card picked is posted and stamped
PostToX ==
    /\ Len(log) < MaxStoreOps
    /\ \E selectedCard \in Eligible(cards, "x") :
          /\ cards' = {IF c.id = selectedCard.id
                       THEN [c EXCEPT !.last_posted_at = Now] ELSE c : c \in cards}
          /\ log' = Append(log, Written("post-to-x", selectedCard.id, NULL, NullText))
    /\ UNCHANGED <<nextId, upserts, rq, posting>>

\* GET /api/cron/post-to-bluesky: the card picked is posted and stamped
PostToBluesky ==
    /\ Len(log) < MaxStoreOps
    /\ \E selectedCard \in Eligible(cards, "bluesky") :
          /\ cards' = {IF c.id = selectedCard.id
                       THEN [c EXCEPT !.last_posted_bluesky = Now] ELSE c : c \in cards}
          /\ log' = Append(log, Written("post-to-bluesky", selectedCard.id, NULL,
                                        NullText))
    /\ UNCHANGED <<nextId, upserts, rq, posting>>

StoreNext ==
    \/ \E card \in StoreCards : saveCard(card)
    \/ PATCH
    \/ PostToX
    \/ PostToBluesky

StoreSpec == Init /\ [][StoreNext]_vars

(***************************************************************************)
(* saveCard on documents: the extraction applied to texts of several lines *)
(***************************************************************************)

\* saveCard is called once, on an empty table, with a card of this text
DocumentCards ==
    {[tmdbId |-> 1, title |-> <<"A">>, mediaType |-> "movie",
      year |-> <<"1", "9", "9", "5">>, cardContent |-> text,
      comparisons |-> NullList, provider |-> CLAUDE_MODEL] :
        text \in Documents}

ExtractNext == \E card \in DocumentCards : log = <<>> /\ saveCard(card)

ExtractSpec == Init /\ [][ExtractNext]_vars

(***************************************************************************)
(* One generation whose text is a comparison list: lines 423-462           *)
(***************************************************************************)

\* the request asks for an entry of the catalog by its id
ListBody ==
    [title |-> NullText, tmdbId |-> 1, mediaType |-> "movie",
     forceProvider |-> "claude"]

ReceiveList ==
    /\ rq[1].pc = "idle"
    /\ ReceiveBody(1, ListBody)
    /\ UNCHANGED <<cards, nextId, upserts, log, posting>>

\* the backend yields the whole list as its first fragment
FirstChunkList ==
    /\ rq[1].pc = "first"
    /\ \E chunk \in ListDocuments : FirstChunkIs(1, chunk)
    /\ UNCHANGED <<cards, nextId, upserts, log, posting>>

\* an entry of the log: the lookup of comparison i settled
Settled(i) == Written("settled", i, NULL, NullText)

\* the promises of lines 431-445 settle in any order
SettleInOrder ==
    /\ rq[1].pc = "resolving"
    /\ \E i \in 1..Len(rq[1].resolution) :
       \E outcome \in SearchOutcomes(rq[1].parsed[i].title) :
          /\ Settle(1, i, outcome)
          /\ log' = Append(log, Settled(i))
    /\ UNCHANGED <<cards, nextId, upserts, posting>>

ResolveNext ==
    \/ ReceiveList
    \/ CacheCheck(1)
    \/ OpenCandidate(1)
    \/ FirstChunkList
    \/ StreamDone(1)
    \/ SettleInOrder
    \/ SaveCard(1)

ResolveSpec == Init /\ [][ResolveNext]_vars

(***************************************************************************)
(* The approval link and the admin PATCH of a pending post:                *)
(* src/src/app/api/approve/[token]/route.ts and                            *)
(* src/src/app/api/admin/pending/[id]/route.ts                             *)
(***************************************************************************)

\* calls made of each of the two handlers
MaxClicks == 2

Statuses == {"pending", "approved", "skipped", "posted", "expired"}

\* the tokens tried: the one of the mail and one no post has
Tokens == {"t", "u"}

\* the handler returns: its locals are gone, the response is remembered
Respond(call, status) ==
    [pc |-> "idle", calls |-> call.calls, status |-> status]

\* lines 18-68 of the link: the select by token, then the checks on the row
\* that was read; a post that is pending and unexpired goes on to the update
LinkLookup ==
    /\ link.pc = "idle"
    /\ link.calls < MaxClicks
    /\ \E token \in Tokens, failed \in BOOLEAN :
       \E pendingPost \in {IF failed THEN NULL
                           ELSE Single({p \in pending_posts :
                                           p.approval_token = token})} :
       \E call \in {[link EXCEPT !.calls = @ + 1]} :
          link' = IF pendingPost = NULL THEN Respond(call, 404)
                  ELSE IF pendingPost.token_expired THEN Respond(call, 410)
                  ELSE IF pendingPost.status # "pending" THEN Respond(call, 200)
                  ELSE [pc |-> "update", calls |-> call.calls, status |-> 0,
                        pendingPost |-> pendingPost]
    /\ UNCHANGED <<cards, nextId, upserts, rq, log, pending_posts, patch,
                   jobs, tweets>>

\* update({status: "approved", ...}).eq("id", pendingPost.id)
Approved(rows, id) ==
    {IF p.id = id
     THEN [p EXCEPT !.status = "approved", !.approved_via = "email"]
     ELSE p : p \in rows}

\* lines 70-103 of the link: the update, which may err
LinkUpdate ==
    /\ link.pc = "update"
    /\ \E updateError \in BOOLEAN :
          IF updateError
          THEN /\ link' = Respond(link, 500)
               /\ UNCHANGED pending_posts
          ELSE /\ link' = Respond(link, 200)
               /\ pending_posts' = Approved(pending_posts, link.pendingPost.id)
    /\ UNCHANGED <<cards, nextId, upserts, rq, log, patch, jobs, tweets>>

\* the bodies of PATCH tried; "undefined" and 0: the field is absent
PatchBodies == [status : {"undefined"} \cup Statuses, selected_card_id : {0, 2}]

\* lines 95-108 of PATCH: the update object built from the body
Updates(body) ==
    [status |-> body.status,
     approved_via |-> IF body.status = "approved" THEN "admin" ELSE "undefined",
     selected_card_id |-> body.selected_card_id]

\* lines 76-112 of PATCH: the session, the select by id and the update object
AdminFetch ==
    /\ patch.pc = "idle"
    /\ patch.calls < MaxClicks
    /\ \E verified \in BOOLEAN, id \in {1, 2}, body \in PatchBodies :
       \E existingPost \in {Single({p \in pending_posts : p.id = id})} :
       \E call \in {[patch EXCEPT !.calls = @ + 1]} :
          patch' = IF ~verified THEN Respond(call, 401)
                   ELSE IF existingPost = NULL THEN Respond(call, 404)
                   ELSE IF body.status = "undefined" /\ body.selected_card_id = 0
                        THEN Respond(call, 400)
                   ELSE [pc |-> "update", calls |-> call.calls, status |-> 0,
                         id |-> id, updates |-> Updates(body)]
    /\ UNCHANGED <<cards, nextId, upserts, rq, log, pending_posts, link,
                   jobs, tweets>>

\* update(updates).eq("id", id)
Updated(rows, id, updates) ==
    {IF p.id = id
     THEN [p EXCEPT
             !.status = IF updates.status # "undefined" THEN updates.status ELSE @,
             !.approved_via = IF updates.approved_via # "undefined"
                              THEN updates.approved_via ELSE @,
             !.selected_card_id = IF updates.selected_card_id # 0
                                  THEN updates.selected_card_id ELSE @]
     ELSE p : p \in rows}

\* lines 114-129 of PATCH: the update, which may err
AdminUpdate ==
    /\ patch.pc = "update"
    /\ \E updateError \in BOOLEAN :
          IF updateError
          THEN /\ patch' = Respond(patch, 500)
               /\ UNCHANGED pending_posts
          ELSE /\ patch' = Respond(patch, 200)
               /\ pending_posts' = Updated(pending_posts, patch.id, patch.updates)
    /\ UNCHANGED <<cards, nextId, upserts, rq, log, link, jobs, tweets>>

\* the time of token_expires_at passes
TokenExpires ==
    /\ \E p \in pending_posts :
          /\ ~p.token_expired
          /\ pending_posts' = (pending_posts \ {p})
                                  \cup {[p EXCEPT !.token_expired = TRUE]}
    /\ UNCHANGED <<cards, nextId, upserts, rq, log, link, patch, jobs, tweets>>

ApproveNext ==
    \/ LinkLookup
    \/ LinkUpdate
    \/ AdminFetch
    \/ AdminUpdate
    \/ TokenExpires

ApproveSpec == Init /\ [][ApproveNext]_vars

(***************************************************************************)
(* The posting job, step by step:                                          *)
(* src/src/app/api/cron/post-to-x/route.ts                                 *)
(***************************************************************************)

\* the cards saved before the job runs: one per catalog entry, with a text
\* that has a calibration sentence
PostCards ==
    {[tmdbId |-> info.id, title |-> info.title, mediaType |-> info.mediaType,
      year |-> info.year, cardContent |-> LineIf, comparisons |-> NullList,
      provider |-> CLAUDE_MODEL] : info \in {MediaInfoOf(d) : d \in Details}}

\* the invocation returns
JobDone(job, status) == [job EXCEPT !.pc = "done", !.status = status]

\* lines 90-149: the query of the eligible cards and the choice among them
\* (the most popular of the slot; any of them may be that one)
JobSelect(j) ==
    /\ jobs[j].pc = "idle"
    /\ \E error \in BOOLEAN :
       \E found \in {IF error THEN {} ELSE Eligible(cards, "x")} :
          IF found = {}
          THEN jobs' = [jobs EXCEPT ![j] = JobDone(@, 200)]
          ELSE \E selectedCard \in found :
                  jobs' = [jobs EXCEPT ![j] = [@ EXCEPT !.pc = "tweet",
                                                  !.selectedCard = selectedCard.id]]
    /\ UNCHANGED <<cards, nextId, upserts, rq, log, pending_posts, link,
                   patch, tweets>>

\* lines 151-189: the post on X; when it throws the catch answers 500
JobTweet(j) ==
    /\ jobs[j].pc = "tweet"
    /\ \E thrown \in BOOLEAN :
          IF thrown
          THEN /\ jobs' = [jobs EXCEPT ![j] = JobDone(@, 500)]
               /\ UNCHANGED tweets
          ELSE /\ jobs' = [jobs EXCEPT ![j].pc = "stamp"]
               /\ tweets' = Append(tweets, [job |-> j, card |-> jobs[j].selectedCard])
    /\ UNCHANGED <<cards, nextId, upserts, rq, log, pending_posts, link, patch>>

\* lines 191-203: the update of last_posted_at, whose error is not read
JobStamp(j) ==
    /\ jobs[j].pc = "stamp"
    /\ \E error \in BOOLEAN :
          IF error THEN UNCHANGED <<cards, log>>
          ELSE /\ cards' = {IF c.id = jobs[j].selectedCard
                            THEN [c EXCEPT !.last_posted_at = Now] ELSE c :
                               c \in cards}
               /\ log' = Append(log, Written("post-to-x", jobs[j].selectedCard,
                                               NULL, NullText))
    /\ jobs' = [jobs EXCEPT ![j] = JobDone(@, 200)]
    /\ UNCHANGED <<nextId, upserts, rq, pending_posts, link, patch, tweets>>

PostNext ==
    \/ \E card \in PostCards : saveCard(card)
    \/ \E j \in Jobs : JobSelect(j)
    \/ \E j \in Jobs : JobTweet(j)
    \/ \E j \in Jobs : JobStamp(j)

PostSpec == Init /\ [][PostNext]_vars

(***************************************************************************)
(* Cards of catalog entries that share a title                             *)
(***************************************************************************)

\* a series with the title and the year of the film A
SameTitle ==
    [id |-> 3, title |-> <<"A">>,
     release_date |-> <<"1", "9", "9", "5", "-", "1", "0">>, media_type |-> "tv"]

\* a film whose title differs from that of A in punctuation only
Punctuated ==
    [id |-> 4, title |-> <<"A", "!">>,
     release_date |-> <<"1", "9", "9", "5", "-", "0", "1">>,
     media_type |-> "movie"]

\* the arguments of saveCard for the entries of the larger catalog
SlugCards ==
    {[tmdbId |-> info.id, title |-> info.title, mediaType |-> info.mediaType,
      year |-> info.year, cardContent |-> text, comparisons |-> NullList,
      provider |-> CLAUDE_MODEL] :
        info \in {MediaInfoOf(d) : d \in Details \cup {SameTitle, Punctuated}},
        text \in {LineA, LineIf}}

SlugNext == \E card \in SlugCards : saveCard(card)

SlugSpec == Init /\ [][SlugNext]_vars

(***************************************************************************)
(* Requests that never overlap, and the override of the admin              *)
(***************************************************************************)

\* no other request is between its arrival and its end
Alone(r) == \A q \in Requests \ {r} : rq[q].pc \in {"idle", "done"}

\* every request asks for the same entry of the catalog
ReceiveById(r) ==
    /\ rq[r].pc = "idle"
    /\ \A q \in Requests : q < r => rq[q].pc # "idle"
    /\ ReceiveBody(r, ListBody)
    /\ UNCHANGED <<cards, nextId, upserts, log, posting>>

\* the admin sets the sentence of a card between two requests
Override ==
    /\ \A r \in Requests : rq[r].pc \in {"idle", "done"}
    /\ PATCH

SequentialNext ==
    \/ \E r \in Requests : Alone(r) /\ ReceiveById(r)
    \/ \E r \in Requests : Alone(r) /\ CacheCheck(r)
    \/ \E r \in Requests : Alone(r) /\ OpenCandidate(r)
    \/ \E r \in Requests : Alone(r) /\ FirstChunkArrives(r)
    \/ \E r \in Requests : Alone(r) /\ StreamChunk(r)
    \/ \E r \in Requests : Alone(r) /\ StreamDone(r)
    \/ \E r \in Requests : Alone(r) /\ ResolveSettles(r)
    \/ \E r \in Requests : Alone(r) /\ SaveCard(r)
    \/ Override

SequentialSpec == Init /\ [][SequentialNext]_vars

(***************************************************************************)
(* Properties                                                              *)
(***************************************************************************)

\* the text blocks the controller of a request has enqueued, in order
RECURSIVE TextBlocks(_)
TextBlocks(out) ==
    IF out = <<>> THEN <<>>
    ELSE (IF Head(out).kind = "text" THEN <<Head(out)>> ELSE <<>>)
         \o TextBlocks(Tail(out))

\* the text the caller of a request has been sent
ForwardedText(rec) ==
    Flatten([i \in 1..Len(TextBlocks(rec.out)) |-> TextBlocks(rec.out)[i].text])

\* the backends a request has opened
Opened(rec) == {b \in Backends : rec.backend[b].state # "idle"}

\* the upserts of a request, as positions of the history
UpsertsOf(r) == {i \in 1..Len(upserts) : upserts[i].request = r}

\* the upserts for one externalId, as positions of the history
UpsertsFor(id) == {i \in 1..Len(upserts) : upserts[i].row.tmdb_id = id}

LastUpsertFor(id) == CHOOSE i \in UpsertsFor(id) : \A j \in UpsertsFor(id) : j <= i

\* the request ran no extraction, no resolution and no upsert
NothingPersisted(r) ==
    /\ rq[r].parsed = NullList
    /\ rq[r].resolution = <<>>
    /\ rq[r].upsert = "none"
    /\ UpsertsOf(r) = {}

C2_PinnedProviderOnly ==
    \A r \in Requests :
        rq[r].forceProvider \in Backends
        => /\ Opened(rq[r]) \subseteq {rq[r].forceProvider}
           /\ rq[r].backend[rq[r].forceProvider].state
                 \in {"openThrew", "abandoned", "threw"}
              => rq[r].response.status = 503

\* C3: once a candidate is committed no backend is opened any more; when
\* the committed backend stalls or throws, the stream of the caller is
\* errored and the request runs no extraction, no resolution and no upsert.
C3_StallIsFatal ==
    \A r \in Requests :
        (rq[r].iterator # "none"
         /\ rq[r].backend[rq[r].iterator].state \in {"stalled", "threw"})
        => /\ rq[r].stream = "errored"
           /\ rq[r].pc = "done"
           /\ NothingPersisted(r)

C3_NoOpenAfterCommit ==
    \A r \in Requests :
        rq[r].iterator # "none" => Opened(rq'[r]) = Opened(rq[r])

C3_CommittedForGood == []C3_StallIsFatal /\ [][C3_NoOpenAfterCommit]_vars

\* Gemini failed, Claude was committed, forwarded a fragment and stalled
C3_Witness ==
    \E r \in Requests :
        /\ rq[r].iterator = "claude"
        /\ rq[r].backend["claude"].state = "stalled"
        /\ rq[r].backend["gemini"].state = "threw"
        /\ rq[r].mediaInfo # NULL
        /\ Len(TextBlocks(rq[r].out)) = 2
        /\ rq[r].stream = "errored"

\* the ordered candidate list of a request
CandidatesOf(rec) ==
    IF rec.forceProvider = "claude" THEN {"claude"} ELSE {"gemini", "claude"}

\* backend b of the request was tried and produced no first fragment
NoFirstFragment(rec, b) ==
    \/ rec.backend[b].state \in {"openThrew", "abandoned", "threw"}
    \/ rec.backend[b].state = "ended" /\ rec.backend[b].yielded = 0

\* C4: when every candidate of the ordered list has failed to produce a
\* first fragment, the request is answered 503, nothing has been sent to
\* the caller and nothing is persisted.
C4_AllFailedIs503 ==
    \A r \in Requests :
        (\A b \in CandidatesOf(rq[r]) : NoFirstFragment(rq[r], b))
        => /\ rq[r].response.status = 503
           /\ rq[r].out = <<>>
           /\ NothingPersisted(r)

\* the positions of the resolutions of a request that found an entry
Found(rec) ==
    {i \in 1..Len(rec.resolution) :
        rec.resolution[i].settled /\ rec.resolution[i].outcome = "found"}

\* the comparison a found resolution must give: the identity of the catalog
\* entry, the title as generated and the phrase
IsResolutionOf(c, pc, rec) ==
    /\ c # NULL
    /\ c.tmdb_id \in {d.id : d \in Details}
    /\ c.original_title = pc.title
    /\ c.phrase = pc.phrase

\* C5: while a request streams and afterwards, the accumulated text is the
\* concatenation of the text fragments forwarded to its caller, and the
\* bodyText each upsert writes is that concatenation.
C5_BodyIsWhatWasForwarded ==
    /\ \A r \in Requests :
          rq[r].iterator # "none" => rq[r].fullContent = ForwardedText(rq[r])
    /\ \A i \in 1..Len(upserts) :
          upserts[i].row.card_content = ForwardedText(rq[upserts[i].request])

\* a card was upserted whose body is two different fragments
C5_Witness ==
    \E i \in 1..Len(upserts) :
        /\ upserts[i].row.card_content = LineIf \o LineA
        /\ Len(TextBlocks(rq[upserts[i].request].out)) = 2

\* C6: a request whose cache lookup returned a stored card answers with
\* that card's bodyText, calibrationSentence and comparisons (no comparisons
\* read as the empty list), opens no backend and runs no extraction, no
\* resolution and no upsert; the card returned is a row of the table.
C6_HitAnswer ==
    \A r \in Requests :
        rq[r].cached # NULL
        => /\ rq[r].cached.tmdb_id = rq[r].mediaInfo.id
           /\ rq[r].response.status = 200
           /\ rq[r].response.xCache = "HIT"
           /\ Len(rq[r].out) = 2
           /\ rq[r].out[1].kind = "metadata"
           /\ rq[r].out[1].calibrationSentence = rq[r].cached.calibration_sentence
           /\ rq[r].out[1].comparisons =
                 (IF rq[r].cached.comparisons = NullList THEN <<>>
                  ELSE rq[r].cached.comparisons)
           /\ rq[r].out[2].kind = "text"
           /\ rq[r].out[2].text = rq[r].cached.card_content
           /\ Opened(rq[r]) = {}
           /\ NothingPersisted(r)

C6_HitIsStored ==
    \A r \in Requests :
        (rq[r].cached = NULL /\ rq'[r].cached # NULL) => rq'[r].cached \in cards

C6_HitShortCircuits == []C6_HitAnswer /\ [][C6_HitIsStored]_vars

\* the second request hit a card with a sentence and a comparison
C6_Witness ==
    \E r \in Requests :
        /\ rq[r].cached # NULL
        /\ rq[r].cached.calibration_sentence # NullText
        /\ rq[r].cached.comparisons # NullList
        /\ rq[r].pc = "done"

\* C7: the table holds at most one row per externalId, and the bodyText of
\* the row of an id is the one the last upsert for that id wrote.
C7_OneRowPerId ==
    /\ \A c, d \in cards : c.tmdb_id = d.tmdb_id => c = d
    /\ \A id \in {d.id : d \in Details} :
          UpsertsFor(id) # {}
          => \E c \in cards :
                /\ c.tmdb_id = id
                /\ c.card_content =
                      rq[upserts[LastUpsertFor(id)].request].fullContent

\* two upserts with different texts for one id, and one row
C7_Witness ==
    /\ Len(upserts) = 2
    /\ upserts[1].row.tmdb_id = upserts[2].row.tmdb_id
    /\ upserts[1].row.card_content # upserts[2].row.card_content
    /\ upserts[1].request < upserts[2].request
    /\ Cardinality(cards) = 1

\* the card info block a request sent after its upsert
CardInfoOf(rec) == rec.out[Len(rec.out)]

\* C8: when two requests for one externalId have both missed the cache and
\* both upserted, the table holds one row for the id, and its bodyText,
\* calibrationSentence, comparisons, slug and provider are those of the
\* request whose upsert came last.
C8_LastUpsertWins ==
    \A id \in {d.id : d \in Details} :
        (\E i, j \in UpsertsFor(id) : upserts[i].request # upserts[j].request)
        => LET w == rq[upserts[LastUpsertFor(id)].request]
           IN  /\ Cardinality({c \in cards : c.tmdb_id = id}) = 1
               /\ \A c \in cards :
                     c.tmdb_id = id
                     => /\ c.card_content = w.fullContent
                        /\ c.provider = w.provider
                        /\ c.provider = w.response.xProvider
                        /\ c.slug = generateSlug(w.mediaInfo.title, w.mediaInfo.year)
                        /\ CardInfoOf(w).kind = "cardinfo"
                        /\ c.slug = CardInfoOf(w).slug
                        /\ c.calibration_sentence = CardInfoOf(w).calibrationSentence
                        /\ c.calibration_sentence = CalibrationSentenceOf(w.fullContent)
                        /\ c.comparisons = CardInfoOf(w).comparisons

\* the request that arrived first upserted last: both ran at the same time,
\* both missed, and they wrote different texts, comparisons and providers
C8_Witness ==
    /\ Len(upserts) = 2
    /\ upserts[1].request = 2
    /\ upserts[2].request = 1
    /\ rq[1].cached = NULL
    /\ rq[2].cached = NULL
    /\ upserts[1].row.tmdb_id = upserts[2].row.tmdb_id
    /\ upserts[1].row.card_content # upserts[2].row.card_content
    /\ upserts[1].row.provider # upserts[2].row.provider
    /\ upserts[1].row.comparisons # NullList
    /\ upserts[2].row.comparisons = NullList
    /\ upserts[1].row.calibration_sentence = NullText
    /\ upserts[2].row.calibration_sentence # NullText
    /\ Cardinality(cards) = 1

\* C9: a stored comparisons list has one entry per raw comparison that
\* resolved, in order, each with the identity of a catalog entry; the raw
\* comparisons without a match leave no entry, and a card none of whose
\* comparisons resolved stores no list.
C9_OnlyResolvedStored ==
    /\ \A c \in cards :
          c.comparisons # NullList
          => /\ Len(c.comparisons) > 0
             /\ \A k \in 1..Len(c.comparisons) :
                   /\ c.comparisons[k] # NULL
                   /\ c.comparisons[k].tmdb_id \in {d.id : d \in Details}
    /\ \A i \in 1..Len(upserts) :
          LET rec    == rq[upserts[i].request]
              stored == upserts[i].row.comparisons
          IN  IF Found(rec) = {} THEN stored = NullList
              ELSE /\ stored # NullList
                   /\ Len(stored) = Cardinality(Found(rec))
                   /\ \A k \in 1..Len(stored) :
                         \E j \in Found(rec) :
                            IsResolutionOf(stored[k], rec.parsed[j], rec)

\* two raw comparisons, the lookup matched one and had no match for the
\* other: the stored list has one entry
C9_Witness ==
    \E i \in 1..Len(upserts) :
        LET rec == rq[upserts[i].request]
        IN  /\ Len(rec.parsed) = 2
            /\ rec.resolution[1].outcome = "none"
            /\ rec.resolution[2].outcome = "found"
            /\ Len(upserts[i].row.comparisons) = 1
            /\ upserts[i].row.comparisons[1].tmdb_id = 1

\* the lookup of some comparison of the request failed
LookupFailed(rec) ==
    \E i \in 1..Len(rec.resolution) :
        rec.resolution[i].settled /\ rec.resolution[i].outcome = "error"

C11_CanceledDoesNothing ==
    [][\A r \in Requests :
          rq[r].stream = "canceled"
          => /\ rq'[r].pulls = rq[r].pulls
             /\ rq'[r].parsed = rq[r].parsed
             /\ rq'[r].resolution = rq[r].resolution
             /\ rq'[r].upsert = rq[r].upsert
             /\ \A i \in 1..Len(upserts') :
                   upserts'[i].request = r => i <= Len(upserts)]_vars

\* C12: when the upsert of a request fails, the backend stream had ended,
\* every fragment the backend yielded has been forwarded to the caller, the
\* stream of the caller is closed and not errored, no card info block has
\* been sent and the failure wrote nothing to the table.
C12_SaveFailureClosesNormally ==
    \A r \in Requests :
        rq[r].upsert = "error"
        => /\ rq[r].pc = "done"
           /\ rq[r].stream = "closed"
           /\ rq[r].backend[rq[r].iterator].state = "ended"
           /\ Len(TextBlocks(rq[r].out)) = rq[r].backend[rq[r].iterator].yielded
           /\ ForwardedText(rq[r]) = rq[r].fullContent
           /\ \A i \in 1..Len(rq[r].out) : rq[r].out[i].kind # "cardinfo"
           /\ UpsertsOf(r) = {}

\* two fragments were generated and forwarded, a comparison was resolved
\* and the upsert failed
C12_Witness ==
    \E r \in Requests :
        /\ rq[r].upsert = "error"
        /\ Len(TextBlocks(rq[r].out)) = 2
        /\ Found(rq[r]) # {}
        /\ rq[r].stream = "closed"

\* the step wrote to the table with statement op
Wrote(op) == Len(log') = Len(log) + 1 /\ log'[Len(log')].op = op

\* C13: a saveCard for an externalId that has a row leaves that row with
\* its card id and its two posting stamps, and with the bodyText, the
\* sentence extracted from it, the comparisons, the slug and the provider
\* of the call; no row is added.
C13_UpsertOverwritesInPlace ==
    [][\A old \in cards :
          (Wrote("saveCard") /\ log'[Len(log')].card.tmdbId = old.tmdb_id)
          => LET card == log'[Len(log')].card
             IN  /\ \E new \in cards' :
                       /\ new.id = old.id
                       /\ new.tmdb_id = old.tmdb_id
                       /\ new.last_posted_at = old.last_posted_at
                       /\ new.last_posted_bluesky = old.last_posted_bluesky
                       /\ new.card_content = card.cardContent
                       /\ new.calibration_sentence =
                             CalibrationSentenceOf(card.cardContent)
                       /\ new.comparisons = card.comparisons
                       /\ new.slug = generateSlug(card.title, card.year)
                       /\ new.provider = card.provider
                 /\ {c.id : c \in cards'} = {c.id : c \in cards}
                 /\ Cardinality(cards') = Cardinality(cards)]_vars

\* a card was saved, posted to X and saved again with another text: the
\* row has the new text and still its stamp
C13_Witness ==
    /\ Len(log) = 3
    /\ log[1].op = "saveCard"
    /\ log[2].op = "post-to-x" /\ log[2].id = log[1].id
    /\ log[3].op = "saveCard" /\ log[3].id = log[1].id
    /\ log[3].card.cardContent # log[1].card.cardContent
    /\ log[3].card.provider # log[1].card.provider
    /\ \E c \in cards :
          /\ c.id = log[3].id
          /\ c.last_posted_at # 0
          /\ c.card_content = log[3].card.cardContent

\* C14: an override leaves in the addressed row the sentence of its body,
\* character for character, and every other column of that row as it was;
\* the other rows are unchanged and no row is added, also when no row has
\* the id.
C14_OverrideWritesSentenceOnly ==
    [][Wrote("PATCH")
       => LET e == log'[Len(log')]
          IN  /\ \A c \in cards :
                    IF c.id = e.id
                    THEN \E d \in cards' :
                            /\ d.calibration_sentence = e.calibration_sentence
                            /\ d.id = c.id
                            /\ d.tmdb_id = c.tmdb_id
                            /\ d.title = c.title
                            /\ d.media_type = c.media_type
                            /\ d.year = c.year
                            /\ d.card_content = c.card_content
                            /\ d.comparisons = c.comparisons
                            /\ d.slug = c.slug
                            /\ d.provider = c.provider
                            /\ d.last_posted_at = c.last_posted_at
                            /\ d.last_posted_bluesky = c.last_posted_bluesky
                    ELSE c \in cards'
              /\ Cardinality(cards') = Cardinality(cards)
              /\ {c.id : c \in cards'} = {c.id : c \in cards}
              /\ nextId' = nextId]_vars

\* two cards were saved and the sentence of the first was overridden with
\* a sentence that extraction would not give
C14_Witness ==
    /\ Len(log) = 3
    /\ log[1].op = "saveCard"
    /\ log[2].op = "saveCard" /\ log[2].id # log[1].id
    /\ log[3].op = "PATCH" /\ log[3].id = log[1].id
    /\ Cardinality(cards) = 2
    /\ \E c \in cards :
          /\ c.id = log[3].id
          /\ c.calibration_sentence = <<"*", "x", "*">>
          /\ c.calibration_sentence # extractCalibrationSentence(c.card_content)

\* the saveCard and PATCH statements that wrote to the row with this id
TextWrites(id) ==
    {i \in 1..Len(log) : log[i].id = id /\ log[i].op \in {"saveCard", "PATCH"}}

SlugCharacters == LowerCase \cup Digits \cup {"-"}

\* C16: the slug of every stored card is the value the slug function gives
\* for the title and the year of the card, whenever it is computed, and it
\* consists of characters in [a-z0-9-] only; so does the slug of every
\* stored comparison.
C16_SlugIsUrlSafe ==
    \A c \in cards :
        /\ c.slug = generateSlug(c.title, c.year)
        /\ \A i \in 1..Len(c.slug) : c.slug[i] \in SlugCharacters
        /\ c.comparisons # NullList
           => \A k \in 1..Len(c.comparisons) :
                 /\ c.comparisons[k].slug
                       = generateSlug(c.comparisons[k].title, c.comparisons[k].year)
                 /\ \A i \in 1..Len(c.comparisons[k].slug) :
                       c.comparisons[k].slug[i] \in SlugCharacters

\* a saveCard wrote last, and its row is in the table
Extracted ==
    /\ log # <<>>
    /\ log[Len(log)].op = "saveCard"
    /\ \E c \in cards : c.id = log[Len(log)].id

\* the text of that saveCard, its lines, and the sentence its row holds
SavedText == log[Len(log)].card.cardContent

DocumentLines == Split(SavedText, NL)

SavedSentence == (CHOOSE c \in cards : c.id = log[Len(log)].id).calibration_sentence

\* the line, trimmed, matches calibration grammar (a) or (b)
MatchesThis(line) == MatchAnchored(Trim(line), ThisPattern, 4).ok

MatchesNamed(line) == MatchAnchored(Trim(line), NamedPattern, 5).ok

MatchesGrammar(line) == MatchesThis(line) \/ MatchesNamed(line)

\* C17: when no line of the saved bodyText matches a calibration grammar,
\* the card is committed with that bodyText and with no calibration
\* sentence.
C17_NoMatchingLineGivesNull ==
    (/\ Extracted
     /\ \A i \in 1..Len(DocumentLines) : ~MatchesGrammar(DocumentLines[i]))
    => \E c \in cards :
          /\ c.id = log[Len(log)].id
          /\ c.card_content = SavedText
          /\ c.calibration_sentence = NullText

\* a text of a plain line and a list line was saved without a sentence
C17_Witness ==
    /\ Extracted
    /\ SavedText = JoinLines(<<PlainLine, BulletArrowLine>>)
    /\ SavedSentence = NullText

\* the line starts with a '-' or '* ' bullet
ListStyle(line) ==
    StartsWith(Trim(line), <<"-">>) \/ StartsWith(Trim(line), <<"*", " ">>)

\* the line has the comparison arrow glyph
HasArrow(line) == Includes(line, <<RightArrow>>) \/ Includes(line, <<"-", ">">>)

Standalone(line) == ~ListStyle(line) /\ ~HasArrow(line)

\* some part of the line, up to its end, matches a calibration grammar
CarriesSentence(line) ==
    \E k \in 1..Len(line) : MatchesGrammar(SubSeq(line, k, Len(line)))

\* C18: when every line of the saved text that carries a calibration
\* sentence is list-style or has the arrow glyph, no sentence is extracted;
\* and when list-style or arrow lines only come before a standalone line
\* that matches a grammar, the sentence is the one of that standalone line.
C18_ListAndArrowLinesAreSkipped ==
    Extracted
    => /\ (\A i \in 1..Len(DocumentLines) :
              CarriesSentence(DocumentLines[i]) => ~Standalone(DocumentLines[i]))
          => SavedSentence = NullText
       /\ \A j \in 1..Len(DocumentLines) :
             (/\ Standalone(DocumentLines[j])
              /\ MatchesGrammar(DocumentLines[j])
              /\ \A i \in 1..(j - 1) : ~Standalone(DocumentLines[i]))
             => SavedSentence = PatternsOfLine(Trim(DocumentLines[j]))

\* a bullet line and an arrow line that carry a sentence come before a
\* standalone line: the sentence is the one of the standalone line
C18_Witness ==
    /\ Extracted
    /\ SavedText = JoinLines(<<StarBulletLine, ArrowLine, NamedLine>>)
    /\ CarriesSentence(StarBulletLine) /\ CarriesSentence(ArrowLine)
    /\ SavedSentence = <<"I", "f", " ", "B", " ", "f", "e", "l", "t", " ", "l", "i", "k", "e", " ", "x", ",", " ", "t", "h", "i", "s", " ", "f", "e", "e", "l", "s", " ", "l", "i", "k", "e", " ", "y", ".">>

\* the lines of the saved text that are standalone and match a grammar
EligibleLines ==
    {j \in 1..Len(DocumentLines) :
        Standalone(DocumentLines[j]) /\ MatchesGrammar(DocumentLines[j])}

\* 'If <subjectTitle> felt [like ]<feltDescriptor>, this <resultDescriptor>.'
\* without emphasis markers
CanonicalSentence(s) ==
    /\ StartsWith(s, <<"I", "f", " ">>)
    /\ Includes(s, <<" ", "f", "e", "l", "t", " ">>)
    /\ Includes(s, <<",", " ", "t", "h", "i", "s", " ">>)
    /\ s[Len(s)] = "."
    /\ \A i \in 1..Len(s) : s[i] # "*"

CanonicalForm ==
    <<Bol(FALSE)>> \o Word(<<"I", "f", " ">>, FALSE)
    \o <<Rep(ReAny, 1, TRUE)>> \o Word(<<" ", "f", "e", "l", "t", " ">>, FALSE)
    \o <<OptGroup(Word(<<"l", "i", "k", "e", " ">>, FALSE)), Rep(ReAny, 1, TRUE)>>
    \o Word(<<",", " ", "t", "h", "i", "s", " ">>, FALSE)
    \o <<OptGroup(Word(<<"m", "a", "y", " ">>, FALSE))>>
    \o Word(<<"f", "e", "e", "l">>, FALSE)
    \o <<Opt(Ch({"s"})), Ch({" "}),
         OptGroup(Word(<<"l", "i", "k", "e", " ">>, FALSE)),
         Rep(ReAny, 1, FALSE), Ch({"."}), Eol(FALSE)>>

\* the line is a canonical sentence: of the form
\* 'If <T> felt [like ]<F>, this [may ]feel[s] [like ]<R>.', no emphasis
CanonicalLine(line) ==
    /\ \A i \in 1..Len(line) : line[i] # "*"
    /\ MatchAnchored(line, CanonicalForm, 0).ok

\* C20: when the saved text is one line that is a canonical sentence (and
\* standalone), the extracted sentence is that line.
C20_ExtractionIsIdentityOnCanonical ==
    (/\ Extracted
     /\ Len(DocumentLines) = 1
     /\ CanonicalLine(DocumentLines[1])
     /\ Standalone(DocumentLines[1]))
    => SavedSentence = DocumentLines[1]

\* the controller of the request has enqueued a metadata block
HasMetadata(rec) == \E i \in 1..Len(rec.out) : rec.out[i].kind = "metadata"

\* C21: a request whose Metadata Lookup threw is answered neither 400 nor
\* 500; it holds no canonical identity, runs no cache check, starts the
\* generation with the message that has the title alone, sends no metadata
\* block and persists nothing; and no stored card lacks an externalId.
C21_LookupFailureDegrades ==
    /\ \A r \in Requests :
          rq[r].lookup = "threw"
          => /\ rq[r].response.status \in {0, 200, 503}
             /\ rq[r].mediaInfo = NULL
             /\ rq[r].pc # "cache"
             /\ rq[r].cached = NULL
             /\ rq[r].response.xCache # "HIT"
             /\ rq[r].candidate # "none"
             /\ rq[r].userMessage # NULL
             /\ ~rq[r].userMessage.context
             /\ ~HasMetadata(rq[r])
             /\ NothingPersisted(r)
    /\ \A c \in cards : c.tmdb_id # 0

\* the lookup threw; the text of two fragments was streamed and the stream
\* was closed, with nothing stored
C21_Witness ==
    \E r \in Requests :
        /\ rq[r].lookup = "threw"
        /\ rq[r].response.status = 200
        /\ rq[r].response.xCache = "MISS"
        /\ Len(TextBlocks(rq[r].out)) = 2
        /\ Len(rq[r].out) = 2
        /\ rq[r].stream = "closed"
        /\ cards = {}

\* C22: a request with neither a title nor an externalId is answered 400,
\* and has made no Metadata Lookup, no cache lookup, no backend call and no
\* store write.
C22_EmptyRequestIsRejected ==
    \A r \in Requests :
        (rq[r].pc # "idle" /\ ~rq[r].given)
        => /\ rq[r].response.status = 400
           /\ rq[r].pc = "done"
           /\ rq[r].lookup = "none"
           /\ rq[r].mediaInfo = NULL
           /\ rq[r].cached = NULL
           /\ rq[r].candidate = "none"
           /\ Opened(rq[r]) = {}
           /\ rq[r].out = <<>>
           /\ NothingPersisted(r)

\* a request without title and externalId was answered 400
C22_Witness ==
    \E r \in Requests :
        /\ rq[r].pc = "done"
        /\ ~rq[r].given
        /\ rq[r].response.status = 400

\* C23: every request that has started the generation comes to commit to
\* a candidate or to answer 503.
C23_GenerationCommitsOrFails ==
    \A r \in Requests :
        (rq[r].candidate # "none")
        ~> (rq[r].iterator # "none" \/ rq[r].response.status = 503)

\* C24: a streaming response is started only for a candidate that has
\* yielded a first fragment; a candidate that produced none (its stream
\* ended before any fragment included) is never the committed one.
C24_CommitNeedsFirstFragment ==
    \A r \in Requests :
        /\ (rq[r].response.status = 200 /\ rq[r].response.xCache = "MISS")
           => /\ rq[r].iterator # "none"
              /\ rq[r].backend[rq[r].iterator].yielded >= 1
              /\ Truthy(rq[r].firstChunk)
        /\ \A b \in Backends : NoFirstFragment(rq[r], b) => rq[r].iterator # b

\* the positions of the blocks of one kind in what a request was sent
BlocksOf(rec, kind) == {i \in 1..Len(rec.out) : rec.out[i].kind = kind}

\* C25 (states): on a miss the metadata block is the first block, and it is
\* there before any text when the identity is known; the card info block
\* is single and last, sent after the backend has ended and the upsert of
\* the request has succeeded, with the id of the row upserted.
C25_BlocksInPlace ==
    \A r \in Requests :
        rq[r].response.xCache # "HIT"
        => /\ BlocksOf(rq[r], "metadata") \subseteq {1}
           /\ (rq[r].mediaInfo = NULL) => BlocksOf(rq[r], "metadata") = {}
           /\ (rq[r].mediaInfo # NULL /\ rq[r].out # <<>>)
              => BlocksOf(rq[r], "metadata") = {1}
           /\ BlocksOf(rq[r], "cardinfo") \subseteq {Len(rq[r].out)}
           /\ BlocksOf(rq[r], "cardinfo") # {}
              => /\ rq[r].upsert = "ok"
                 /\ rq[r].backend[rq[r].iterator].state = "ended"
                 /\ BlocksOf(rq[r], "text") # {}
                 /\ \E i \in UpsertsOf(r) :
                       upserts[i].row.id = rq[r].out[Len(rq[r].out)].id

\* C25 (steps): what a request was sent only grows at its end, one block
\* at a time, and a text block is added in the step in which the backend
\* yields that text, which is also the text accumulated in that step.
C25_BlocksAppended ==
    \A r \in Requests :
        (rq[r].out # <<>> /\ rq'[r].out # rq[r].out)
        => /\ Len(rq'[r].out) = Len(rq[r].out) + 1
           /\ SubSeq(rq'[r].out, 1, Len(rq[r].out)) = rq[r].out
           /\ LET block == rq'[r].out[Len(rq'[r].out)]
              IN  block.kind = "text"
                  => /\ block.src = rq[r].iterator
                     /\ rq'[r].backend[block.src].yielded
                           = rq[r].backend[block.src].yielded + 1
                     /\ rq'[r].fullContent = rq[r].fullContent \o block.text

C25_OutboundStreamIsOrdered == []C25_BlocksInPlace /\ [][C25_BlocksAppended]_vars

\* a request was sent a metadata block, two text blocks and a card info
\* block, in this order
C25_Witness ==
    \E r \in Requests :
        /\ Len(rq[r].out) = 4
        /\ rq[r].out[1].kind = "metadata"
        /\ rq[r].out[2].kind = "text"
        /\ rq[r].out[3].kind = "text"
        /\ rq[r].out[4].kind = "cardinfo"
        /\ rq[r].stream = "closed"

\* the reads of the committed backend that were answered with the end of
\* the stream before the loop started (the first read of getFirstChunk)
EndedAtFirstRead(rec) == IF Truthy(rec.firstChunk) THEN 0 ELSE 1

\* C26: the reads made of the committed backend are one more than the
\* reads answered, so at most one is outstanding; and each fragment the
\* backend has yielded is accumulated and forwarded by the time the next
\* read is made.
C26_OneReadAtATime ==
    \A r \in Requests :
        rq[r].iterator # "none"
        => LET yielded == rq[r].backend[rq[r].iterator].yielded
           IN  /\ rq[r].pulls = yielded + EndedAtFirstRead(rq[r]) + 1
               /\ Len(rq[r].accumulated) = yielded
               /\ Cardinality(BlocksOf(rq[r], "text")) = yielded

\* the third read of the committed backend is outstanding, two fragments
\* are accumulated and forwarded
C26_Witness ==
    \E r \in Requests :
        /\ rq[r].pc = "streaming"
        /\ rq[r].pulls = 3
        /\ rq[r].backend[rq[r].iterator].state = "streaming"
        /\ Len(rq[r].accumulated) = 2
        /\ Cardinality(BlocksOf(rq[r], "text")) = 2

\* C27: the provider of an upserted card and the X-Provider header of its
\* request name the backend that every accumulated fragment of the request
\* was read from, whatever the other requests chose.
C27_ProviderIsTheSource ==
    /\ \A r \in Requests :
          rq[r].iterator # "none"
          => /\ rq[r].response.xProvider = ModelOf(rq[r].iterator)
             /\ rq[r].provider = ModelOf(rq[r].iterator)
             /\ \A i \in 1..Len(rq[r].accumulated) :
                   rq[r].accumulated[i] = rq[r].iterator
    /\ \A i \in 1..Len(upserts) :
          /\ upserts[i].row.provider = ModelOf(rq[upserts[i].request].iterator)
          /\ upserts[i].row.provider = rq[upserts[i].request].response.xProvider

\* a request that failed over to Claude saved its card with two fragments
\* of Claude, after the card of another request was saved
C27_Witness ==
    \E i, j \in 1..Len(upserts) :
        /\ j < i
        /\ upserts[i].request # upserts[j].request
        /\ rq[upserts[i].request].forceProvider # "claude"
        /\ rq[upserts[i].request].backend["gemini"].state = "abandoned"
        /\ rq[upserts[i].request].accumulated = <<"claude", "claude">>
        /\ upserts[i].row.provider = CLAUDE_MODEL

RECURSIVE Ascending(_)
\* the numbers of a set, smallest first
Ascending(S) ==
    IF S = {} THEN <<>>
    ELSE LET least == CHOOSE x \in S : \A y \in S : x <= y
         IN  <<least>> \o Ascending(S \ {least})

\* C28: the comparisons an upsert stored are the raw comparisons whose
\* lookup found an entry, in the order of the raw comparisons (the order
\* of their lines in the text), whatever the order the lookups settled in;
\* two raw comparisons of one title that both resolved are both stored.
C28_StoredInLineOrder ==
    \A i \in 1..Len(upserts) :
        LET rec    == rq[upserts[i].request]
            stored == upserts[i].row.comparisons
            found  == Ascending(Found(rec))
        IN  IF found = <<>> THEN stored = NullList
            ELSE /\ Len(stored) = Len(found)
                 /\ \A k \in 1..Len(found) :
                       /\ stored[k] = rec.resolution[found[k]].result
                       /\ stored[k].original_title = rec.parsed[found[k]].title
                       /\ stored[k].phrase = rec.parsed[found[k]].phrase

\* the text has the lines of A, of B and of A again; the lookup of the third
\* line settled first and that of the first line last; the card stores A, B
\* and A in the order of the lines
C28_Witness ==
    /\ Len(upserts) = 1
    /\ rq[1].fullContent = JoinLines(<<ListA, ListB, ListA>>)
    /\ Len(log) = 4
    /\ log[1] = Settled(3) /\ log[2] = Settled(2) /\ log[3] = Settled(1)
    /\ Len(upserts[1].row.comparisons) = 3
    /\ upserts[1].row.comparisons[1].original_title = <<"A">>
    /\ upserts[1].row.comparisons[1].phrase = <<"p">>
    /\ upserts[1].row.comparisons[2].original_title = <<"B">>
    /\ upserts[1].row.comparisons[2].title = <<"B", "!">>
    /\ upserts[1].row.comparisons[3].original_title = <<"A">>
    /\ upserts[1].row.comparisons[3].tmdb_id = upserts[1].row.comparisons[1].tmdb_id

\* the characters the titles of C29 are made of
TitleChars == Letters \cup Digits \cup {" ", ":", "'", "-"}

\* a list line of the form bullet, title, arrow, phrase: the bullet is - or *,
\* the title may be wrapped in *, the arrow is U+2192 or ->
EntryLine ==
    << Bol(FALSE), Ch({"-", "*"}), Rep(ReSpace, 1, FALSE), Opt(Ch({"*"})),
       Open(1), Rep(Ch(TitleChars), 1, TRUE), Close(1),
       Opt(Ch({"*"})), Rep(ReSpace, 0, FALSE),
       Alt(<<Ch({RightArrow})>>, <<Ch({"-"}), Ch({">"})>>),
       Rep(ReSpace, 0, FALSE),
       Open(2), Rep(ReAny, 1, FALSE), Close(2), Eol(FALSE) >>

\* the title and the phrase of a line, NULL when the line is not of the form
\* or its title or phrase is empty
EntryOfLine(line) ==
    LET m == MatchAnchored(line, EntryLine, 2)
    IN  IF m.ok /\ Trim(Group(line, m, 1)) # <<>> /\ Trim(Group(line, m, 2)) # <<>>
        THEN [title |-> Trim(Group(line, m, 1)), phrase |-> Trim(Group(line, m, 2))]
        ELSE NULL

\* the entries of the list lines, computed once
EntriesOfLines == [line \in ListLines |-> EntryOfLine(line)]

\* the lines of the generated text of a request
LinesOf(rec) == Split(rec.fullContent, NL)

\* how many members of the sequence are this entry
Occurrences(entries, e) == Cardinality({k \in 1..Len(entries) : entries[k] = e})

\* the request has parsed a generated comparison list
ParsedList(rec) == rec.parsed # NullList /\ rec.fullContent \in ListDocuments

\* C29: every line of the form bullet, title, arrow, phrase whose title is
\* made of letters, digits, spaces, colons, apostrophes and hyphens gives
\* one raw comparison with the title (without its emphasis marker) and the
\* phrase of the line: the raw comparisons hold its entry as often as the
\* text holds lines with that entry.
C29_EveryEntryLineIsParsed ==
    \A r \in Requests :
        ParsedList(rq[r])
        => LET lines   == LinesOf(rq[r])
               entries == [i \in 1..Len(lines) |-> EntriesOfLines[lines[i]]]
           IN  \A i \in 1..Len(lines) :
                  entries[i] # NULL
                  => Occurrences(rq[r].parsed, entries[i])
                        = Occurrences(entries, entries[i])

\* C30: the raw comparisons of a text are those of its first line, then
\* those of its second line, and so on, each line parsed on its own: no raw
\* comparison takes its title from one line and its phrase from another.
C30_ParsedLineByLine ==
    \A r \in Requests :
        ParsedList(rq[r])
        => LET lines == LinesOf(rq[r])
           IN  rq[r].parsed
                  = Flatten([i \in 1..Len(lines) |-> ParseComparisonsOf(lines[i])])

\* the catalog entry with this id has a release date
Dated(id) == \E d \in Details : d.id = id /\ Truthy(d.release_date)

\* C31: the slug of a card whose catalog entry has no release date is the
\* base slug of its title, without a year suffix, and so is the slug of a
\* stored comparison that resolved to such an entry.
C31_NoYearNoSuffix ==
    \A c \in cards :
        /\ ~Dated(c.tmdb_id) => c.slug = generateSlug(c.title, NullText)
        /\ c.comparisons # NullList
           => \A k \in 1..Len(c.comparisons) :
                 ~Dated(c.comparisons[k].tmdb_id)
                 => c.comparisons[k].slug
                       = generateSlug(c.comparisons[k].title, NullText)

\* C32: every card the pipeline wrote has an externalId and a bodyText that
\* is not empty; a request that has no catalog identity, or whose committed
\* backend ended without any text, makes no upsert.
C32_SavedCardsHaveIdAndText ==
    /\ \A c \in cards :
          /\ c.tmdb_id \in {d.id : d \in Details}
          /\ Truthy(c.card_content)
    /\ \A i \in 1..Len(upserts) :
          /\ upserts[i].row.tmdb_id \in {d.id : d \in Details}
          /\ Truthy(upserts[i].row.card_content)
    /\ \A r \in Requests :
          (rq[r].mediaInfo = NULL \/ ~Truthy(rq[r].fullContent))
          => /\ UpsertsOf(r) = {}
             /\ rq[r].upsert = "none"
             /\ rq[r].pc # "resolving"

\* one request with a catalog identity was committed to a backend that ended
\* without any text, another was generated without a catalog identity: both
\* are done, their streams closed, and no card is written
C32_Witness ==
    \E r, q \in Requests :
        /\ rq[r].mediaInfo # NULL /\ rq[r].iterator # "none"
        /\ rq[r].backend[rq[r].iterator].state = "ended"
        /\ rq[r].fullContent = <<>>
        /\ rq[r].pc = "done" /\ rq[r].stream = "closed"
        /\ rq[q].mediaInfo = NULL /\ Truthy(rq[q].fullContent)
        /\ rq[q].pc = "done" /\ rq[q].stream = "closed"
        /\ cards = {} /\ upserts = <<>>

\* C33: when the generate requests do not overlap, a saveCard of the
\* pipeline never writes to a row that is already stored: the bodyText and
\* the calibrationSentence of a stored card (the sentence may be one an
\* admin has set) are not replaced by a later request, and no externalId is
\* upserted twice.
C33_StoredCardIsNotRegenerated ==
    [][Wrote("saveCard")
       => \A old \in cards :
             \E c \in cards' : /\ c.id = old.id
                               /\ c.card_content = old.card_content
                               /\ c.calibration_sentence = old.calibration_sentence]_vars

\* C34: every stored card is the card that the lookup by its own slug
\* returns.
C34_SlugFindsItsCard ==
    \A c \in cards : getCardBySlugOrId(cards, c.slug) = c

\* the step is the update of the approval link
LinkWrites == link.pc = "update" /\ link'.pc = "idle"

\* C35: the approval link leaves every post as it is, except that its
\* update may turn a post that is pending, and whose token has not expired,
\* into an approved one; this holds however its steps are interleaved with
\* those of the admin PATCH.
C35_LinkOnlyApprovesPending ==
    [][/\ (link' # link /\ ~LinkWrites) => pending_posts' = pending_posts
       /\ LinkWrites
          => \A p \in pending_posts :
                \/ p \in pending_posts'
                \/ /\ p.status = "pending"
                   /\ ~p.token_expired
                   /\ [p EXCEPT !.status = "approved", !.approved_via = "email"]
                         \in pending_posts']_vars

\* C36: no card is posted on X twice (the thirty days of the cooldown do
\* not pass within a run), and a job that has posted a card and returned
\* has left the card with its last_posted_at set; two invocations may
\* overlap and the update of the timestamp may fail.
C36_PostedOncePerCooldown ==
    /\ \A i, k \in 1..Len(tweets) : i # k => tweets[i].card # tweets[k].card
    /\ \A i \in 1..Len(tweets) :
          jobs[tweets[i].job].pc = "done"
          => \A c \in cards : c.id = tweets[i].card => c.last_posted_at # 0

=============================================================================
